---- MODULE Spec2Model ----
(***************************************************************************)
(* A model of the np-feasibility analysis: the topological permutation of  *)
(* a problem (src/permutation.rs), the strengthening of the job bounds     *)
(* along the precedence constraints (src/bounds/constraints.rs) and the    *)
(* certain-occupation timeline (src/bounds/occupation.rs).                 *)
(*                                                                         *)
(* A Vec is a sequence; the code's zero-based indices are kept as values   *)
(* (job.index, constraint.before, positions in a Vec) and At(v, i) reads   *)
(* element i of the Vec v.                                                 *)
(***************************************************************************)
EXTENDS Integers, Sequences, FiniteSets, TLC

VARIABLES
    pc,           \* position of the driver of the specification that runs
    problem,      \* the Problem the passes mutate in place
    original,     \* the Problem as it was supplied (kept for comparison)
    permutation,  \* the ProblemPermutation handle, or NoValue
    result,       \* the value the last call returned, or NoValue
    previous,     \* the Problem / timeline right before the last call
    timeline,     \* the OccupationTimeline
    called,       \* the last timeline call: its name and the Job handed in
    job,          \* that Job as the call left it
    found,        \* the last find_interruption call: its range and its Option
    build,        \* whether the build checks integer overflow (debug) or wraps
    tree,         \* the IntervalTree as its nodes, the node called on first
    output,       \* the Vec the queries append to
    pushed,       \* the intervals handed to IntervalTree::insert, in order
    occupation,   \* what strengthen_bounds_using_core_occupation returned to main
    printed,      \* the verdict main printed
    iterator,     \* the SortedJobIterator
    taken,        \* what its next calls returned as Some, in order
    load_test,    \* the LoadTest
    interval_test,\* the IntervalTest
    simulator,    \* the Simulator
    queue         \* the HeuristicJobQueue

vars == <<pc, problem, original, permutation, result, previous, timeline,
          called, job, found, build,
          tree, output, pushed,
          occupation, printed,
          iterator, taken,
          load_test,
          interval_test,
          simulator,
          queue>>

NoValue == "none"

\* ---------------------------------------------------------------- bounds
MaxJobs == 3
MaxConstraints == 2
MaxDelay == 1
MaxExecutionTime == 2
MaxRelease == 1
MaxDeadline == 5
MaxCores == 2
MaxTime == 5
MaxDuration == 3

MaxProcessors == 3

MaxBinSize == 6

MaxSize == 5

MaxSizes == 5
\* the same four for the calls with many sizes, drawn in descending order
MaxManyProcessors == 4
MaxLargeBinSize == 11
MaxLargeSize == 6
MaxManySizes == 7
\* IntervalTree: the intervals inserted, their largest time, the largest
\* leaf threshold tried and the queries on one tree
MaxIntervals == 3
MaxTreeTime == 3
MaxThreshold == 3
MaxQueries == 2
\* the pipeline of main: the largest execution time and deadline of a problem
\* without constraints, the constraints of a problem with constraints and
\* the largest deadline of such a problem
MaxMainExecutionTime == 3
MaxMainDeadline == 5
MaxMainConstraints == 1
MaxConstrainedDeadline == 2

\* the sorted-job iterator: the largest key of a job and the next calls on
\* one iterator
MaxKey == 2
MaxCalls == 4

\* the load test: the largest deadline of the small problems it runs on
MaxLoadDeadline == 4
\* the call-by-call strengthening: the latest deadline of a job
MaxStepDeadline == 4
\* the simulator: the deadline of every job of its small problems
MaxSimulatorDeadline == 3
\* the jobs of the small problems predictions are made for
MaxPredictJobs == 2
\* the heuristic queue: the largest to_skip handed to choose_next
MaxToSkip == 3

\* ------------------------------------------------------------ problem.rs
At(v, i) == v[i + 1]

Job(index, execution_time, earliest_start, latest_start) ==
    [index |-> index, execution_time |-> execution_time,
     earliest_start |-> earliest_start, latest_start |-> latest_start]

release_to_deadline(index, release_time, execution_time, deadline) ==
    Job(index, execution_time, release_time, deadline - execution_time)

Job_dummy == Job(0, 1, 0, 0)

get_earliest_finish(j) == j.earliest_start + j.execution_time

get_latest_finish(j) == j.latest_start + j.execution_time

\* the setter with the execution time forgotten (not the program's)
set_latest_start(j, latest_finish) == [j EXCEPT !.latest_start = latest_finish]

set_latest_finish(j, latest_finish) ==
    [j EXCEPT !.latest_start = latest_finish - j.execution_time]

is_certainly_infeasible(j) == j.earliest_start > j.latest_start

ConstraintType == {"StartToStart", "FinishToStart"}

Constraint(before, after, delay, constraint_type) ==
    [before |-> before, after |-> after,
     constraint_type |-> constraint_type, delay |-> delay]

Constraint_dummy == Constraint(0, 0, 0, "StartToStart")

update_job_indices(jobs) ==
    [i \in 1..Len(jobs) |-> [jobs[i] EXCEPT !.index = i - 1]]

is_job_order_possible(p) ==
    \A i \in 1..Len(p.constraints) :
        p.constraints[i].before < p.constraints[i].after

\* Problem::validate: the conditions a Problem must meet
validate(p) ==
    /\ \A i \in 1..Len(p.jobs) : p.jobs[i].index = i - 1
    /\ \A i \in 1..Len(p.constraints) :
        /\ p.constraints[i].delay >= 0
        /\ p.constraints[i].before < Len(p.jobs)
        /\ p.constraints[i].after < Len(p.jobs)

\* --------------------------------------------------------- permutation.rs
PermutationJobBuilder(j) ==
    [job |-> j, num_successors |-> 0, offset |-> 0, remaining_predecessors |-> 0]

\* for constraint in &problem.constraints: count successors and predecessors
RECURSIVE PermutationCount(_, _, _)
PermutationCount(builders, constraints, i) ==
    IF i > Len(constraints) THEN builders
    ELSE LET c == constraints[i]
             b1 == [builders EXCEPT ![c.before + 1].num_successors = @ + 1]
             b2 == [b1 EXCEPT ![c.after + 1].remaining_predecessors = @ + 1]
         IN PermutationCount(b2, constraints, i + 1)

\* for builder in &mut builders: the running offset, num_successors reset
RECURSIVE PermutationOffsets(_, _, _)
PermutationOffsets(builders, i, offset) ==
    IF i > Len(builders) THEN builders
    ELSE PermutationOffsets(
            [builders EXCEPT ![i].offset = offset, ![i].num_successors = 0],
            i + 1, offset + builders[i].num_successors)

\* the counting sort of the constraints by their before job; state is
\* [builders, sorted_constraints, constraint_permutation]
RECURSIVE PermutationSort(_, _, _)
PermutationSort(st, constraints, index) ==
    IF index >= Len(constraints) THEN st
    ELSE LET constraint == At(constraints, index)
             predecessor == At(st.builders, constraint.before)
             target == predecessor.offset + predecessor.num_successors
         IN PermutationSort(
              [builders |-> [st.builders EXCEPT
                                ![constraint.before + 1].num_successors = @ + 1],
               sorted_constraints |->
                   [st.sorted_constraints EXCEPT ![target + 1] = constraint],
               constraint_permutation |->
                   [st.constraint_permutation EXCEPT ![index + 1] = target]],
              constraints, index + 1)

\* a worklist seeded with every job, whatever its predecessors
PermutationSeedUnchecked(builders, i) ==
    [k \in 1..(Len(builders) + 1 - i) |-> builders[k + i - 1].job]

\* for builder in &builders: the jobs without predecessors, in job order
RECURSIVE PermutationSeed(_, _)
PermutationSeed(builders, i) ==
    IF i > Len(builders) THEN <<>>
    ELSE (IF builders[i].remaining_predecessors = 0
          THEN <<builders[i].job>> ELSE <<>>) \o PermutationSeed(builders, i + 1)

\* for constraint in &sorted_constraints[start_index..bound_index];
\* state is [builders, next_jobs, ok], ok = FALSE once the assert! fails
RECURSIVE PermutationRelease(_, _, _, _)
PermutationRelease(st, sorted_constraints, index, bound_index) ==
    IF index >= bound_index \/ ~st.ok THEN st
    ELSE LET after == At(sorted_constraints, index).after
             remaining == At(st.builders, after).remaining_predecessors - 1
             builders == [st.builders EXCEPT
                             ![after + 1].remaining_predecessors = remaining]
         IN PermutationRelease(
              [builders |-> builders,
               next_jobs |-> IF remaining = 0
                             THEN Append(st.next_jobs, At(builders, after).job)
                             ELSE st.next_jobs,
               ok |-> remaining >= 0],
              sorted_constraints, index + 1, bound_index)

\* while !next_jobs.is_empty(): pop the last job, release its successors;
\* state is [builders, next_jobs, ok, completed_jobs]
RECURSIVE PermutationWorklist(_, _)
PermutationWorklist(st, sorted_constraints) ==
    IF st.next_jobs = <<>> \/ ~st.ok THEN st
    ELSE LET predecessor == st.next_jobs[Len(st.next_jobs)]
             start_index == At(st.builders, predecessor).offset
             bound_index == start_index + At(st.builders, predecessor).num_successors
             popped == [builders |-> st.builders,
                        next_jobs |-> SubSeq(st.next_jobs, 1, Len(st.next_jobs) - 1),
                        ok |-> TRUE]
             released == PermutationRelease(popped, sorted_constraints,
                                            start_index, bound_index)
         IN PermutationWorklist(
              [builders |-> released.builders, next_jobs |-> released.next_jobs,
               ok |-> released.ok,
               completed_jobs |-> Append(st.completed_jobs, predecessor)],
              sorted_constraints)

\* the job mapping with which possible rewrites the constraint endpoints
PermutationEndpoint(completed_jobs, old_index) == At(completed_jobs, old_index)

\* ProblemPermutation::possible: [problem, permutation, returned]; returned
\* is "Some", "None", or "panic" when the assert! of the worklist fails
possible(p) ==
    LET builders0 == [i \in 1..Len(p.jobs) |-> PermutationJobBuilder(p.jobs[i].index)]
        counted == PermutationOffsets(
                       PermutationCount(builders0, p.constraints, 1), 1, 0)
        sorted == PermutationSort(
                    [builders |-> counted,
                     sorted_constraints |->
                         [i \in 1..Len(p.constraints) |-> Constraint_dummy],
                     constraint_permutation |->
                         [i \in 1..Len(p.constraints) |-> 0]],
                    p.constraints, 0)
        done == PermutationWorklist(
                    [builders |-> sorted.builders,
                     next_jobs |-> PermutationSeed(sorted.builders, 1),
                     ok |-> TRUE, completed_jobs |-> <<>>],
                    sorted.sorted_constraints)
        completed_jobs == done.completed_jobs
    IN IF ~done.ok
       THEN [problem |-> p, permutation |-> NoValue, returned |-> "panic"]
       ELSE IF Len(completed_jobs) # Len(p.jobs)
       THEN [problem |-> p, permutation |-> NoValue, returned |-> "None"]
       ELSE [problem |->
                [p EXCEPT
                    !.jobs = update_job_indices(
                        [i \in 1..Len(completed_jobs) |->
                            At(p.jobs, completed_jobs[i])]),
                    !.constraints =
                        [index \in 1..Len(p.constraints) |->
                            LET old == sorted.sorted_constraints[index]
                            IN Constraint(
                                 PermutationEndpoint(completed_jobs, old.before),
                                 PermutationEndpoint(completed_jobs, old.after),
                                 old.delay, old.constraint_type)]],
             permutation |-> [jobs |-> completed_jobs,
                              constraints |-> sorted.constraint_permutation],
             returned |-> "Some"]

\* for original_index in 0 .. self.jobs.len(); state is
\* [new_jobs, reverse_job_mapping]
RECURSIVE TransformBackJobs(_, _, _, _)
TransformBackJobs(st, self_jobs, jobs, original_index) ==
    IF original_index >= Len(self_jobs) THEN st
    ELSE LET current_index == At(self_jobs, original_index)
         IN TransformBackJobs(
              [new_jobs |-> [st.new_jobs EXCEPT
                                ![original_index + 1] = At(jobs, current_index)],
               reverse_job_mapping |->
                   [st.reverse_job_mapping EXCEPT
                       ![current_index + 1] = original_index]],
              self_jobs, jobs, original_index + 1)

\* for original_index in 0 .. self.constraints.len()
RECURSIVE TransformBackConstraints(_, _, _, _, _)
TransformBackConstraints(new_constraints, self_constraints, constraints, reverse_job_mapping, original_index) ==
    IF original_index >= Len(self_constraints) THEN new_constraints
    ELSE LET current_index == At(self_constraints, original_index)
             current_constraint == At(constraints, current_index)
             original_constraint ==
                 Constraint(At(reverse_job_mapping, current_constraint.before),
                            At(reverse_job_mapping, current_constraint.after),
                            current_constraint.delay,
                            current_constraint.constraint_type)
         IN TransformBackConstraints(
              [new_constraints EXCEPT ![current_index + 1] = original_constraint],
              self_constraints, constraints, reverse_job_mapping,
              original_index + 1)

\* ProblemPermutation::transform_back
transform_back(self, p) ==
    LET jobs == TransformBackJobs(
                    [new_jobs |-> [i \in 1..Len(p.jobs) |-> Job_dummy],
                     reverse_job_mapping |-> [i \in 1..Len(p.jobs) |-> 0]],
                    self.jobs, p.jobs, 0)
    IN [p EXCEPT
          !.jobs = update_job_indices(jobs.new_jobs),
          !.constraints = TransformBackConstraints(
                [i \in 1..Len(p.constraints) |-> Constraint_dummy],
                self.constraints, p.constraints, jobs.reverse_job_mapping, 0)]

\* --------------------------------------------------- bounds/constraints.rs
ConstraintsJobBuilder(j) == [job |-> j, count |-> 0, offset |-> 0, remaining |-> 0]

\* for constraint in &problem.constraints: remaining of the job named by
\* `open`, count of the job named by `grouped`
RECURSIVE ConstraintsCount(_, _, _, _, _)
ConstraintsCount(builders, constraints, i, open, grouped) ==
    IF i > Len(constraints) THEN builders
    ELSE LET c == constraints[i]
             b1 == [builders EXCEPT ![c[open] + 1].remaining = @ + 1]
             b2 == [b1 EXCEPT ![c[grouped] + 1].count = @ + 1]
         IN ConstraintsCount(b2, constraints, i + 1, open, grouped)

\* for builder in &mut builders: the running offset, count reset
RECURSIVE ConstraintsOffsets(_, _, _)
ConstraintsOffsets(builders, i, offset) ==
    IF i > Len(builders) THEN builders
    ELSE ConstraintsOffsets(
            [builders EXCEPT ![i].offset = offset, ![i].count = 0],
            i + 1, offset + builders[i].count)

\* the counting sort of the constraints by the job named by `grouped`;
\* state is [builders, sorted_constraints]
RECURSIVE ConstraintsSort(_, _, _, _)
ConstraintsSort(st, constraints, i, grouped) ==
    IF i > Len(constraints) THEN st
    ELSE LET constraint == constraints[i]
             owner == At(st.builders, constraint[grouped])
         IN ConstraintsSort(
              [builders |-> [st.builders EXCEPT
                                ![constraint[grouped] + 1].count = @ + 1],
               sorted_constraints |->
                   [st.sorted_constraints EXCEPT
                       ![owner.offset + owner.count + 1] = constraint]],
              constraints, i + 1, grouped)

\* for builder in &builders: the jobs without successors, in job order
RECURSIVE ConstraintsSeed(_, _)
ConstraintsSeed(builders, i) ==
    IF i > Len(builders) THEN <<>>
    ELSE (IF builders[i].remaining = 0 THEN <<builders[i].job>> ELSE <<>>)
            \o ConstraintsSeed(builders, i + 1)

\* max_time_gap of a constraint whose predecessor runs execution_time
max_time_gap(constraint, execution_time) ==
    constraint.delay +
        (IF constraint.constraint_type = "FinishToStart" THEN execution_time ELSE 0)

\* a bound that counts as moved when it stays where it is
LatestStartMovesOrStays(constraint_bound, latest_start) == constraint_bound <= latest_start

EarliestStartMovesOrStays(constraint_bound, earliest_start) ==
    constraint_bound >= earliest_start

\* a bound that is taken whenever it differs
LatestStartDiffers(constraint_bound, latest_start) == constraint_bound # latest_start

\* if constraint_bound < predecessor_job.latest_start
LatestStartMoves(constraint_bound, latest_start) == constraint_bound < latest_start

\* if constraint_bound > successor_job.earliest_start
EarliestStartMoves(constraint_bound, earliest_start) == constraint_bound > earliest_start

\* the backward pass over the constraints that end in one successor;
\* state is [jobs, builders, next_jobs, result, ok]
RECURSIVE ConstraintsBackward(_, _, _, _, _)
ConstraintsBackward(st, sorted_constraints, index, bound_index, latest_successor_start) ==
    IF index >= bound_index \/ ~st.ok THEN st
    ELSE LET constraint == At(sorted_constraints, index)
             before == constraint.before
             remaining == At(st.builders, before).remaining - 1
             predecessor_job == At(st.jobs, At(st.builders, before).job)
             constraint_bound == latest_successor_start
                 - max_time_gap(constraint, predecessor_job.execution_time)
             moves == LatestStartMoves(constraint_bound, predecessor_job.latest_start)
         IN IF remaining < 0 THEN [st EXCEPT !.ok = FALSE]
            ELSE ConstraintsBackward(
              [jobs |-> IF moves
                        THEN [st.jobs EXCEPT
                                 ![At(st.builders, before).job + 1].latest_start =
                                     constraint_bound]
                        ELSE st.jobs,
               builders |-> [st.builders EXCEPT ![before + 1].remaining = remaining],
               next_jobs |-> IF remaining = 0
                             THEN Append(st.next_jobs, At(st.builders, before).job)
                             ELSE st.next_jobs,
               result |-> IF moves THEN "Modified" ELSE st.result,
               ok |-> TRUE],
              sorted_constraints, index + 1, bound_index, latest_successor_start)

\* while !next_jobs.is_empty(): pop the last job, bound its predecessors;
\* state is [jobs, builders, next_jobs, result, ok, completed_jobs]
RECURSIVE ConstraintsWorklist(_, _)
ConstraintsWorklist(st, sorted_constraints) ==
    IF st.next_jobs = <<>> \/ ~st.ok THEN st
    ELSE LET successor == st.next_jobs[Len(st.next_jobs)]
             start_index == At(st.builders, successor).offset
             bound_index == start_index + At(st.builders, successor).count
             swept == ConstraintsBackward(
                        [jobs |-> st.jobs, builders |-> st.builders,
                         next_jobs |-> SubSeq(st.next_jobs, 1, Len(st.next_jobs) - 1),
                         result |-> st.result, ok |-> TRUE],
                        sorted_constraints, start_index, bound_index,
                        At(st.jobs, successor).latest_start)
         IN ConstraintsWorklist(
              [jobs |-> swept.jobs, builders |-> swept.builders,
               next_jobs |-> swept.next_jobs, result |-> swept.result,
               ok |-> swept.ok,
               completed_jobs |-> Append(st.completed_jobs, successor)],
              sorted_constraints)

\* the forward pass over the constraints that start in one predecessor;
\* state is [jobs, builders, result, ok]
RECURSIVE ConstraintsForward(_, _, _, _, _, _)
ConstraintsForward(st, sorted_constraints, index, bound_index, earliest_predecessor_start, predecessor_execution_time) ==
    IF index >= bound_index \/ ~st.ok THEN st
    ELSE LET constraint == At(sorted_constraints, index)
             after == constraint.after
             remaining == At(st.builders, after).remaining - 1
             successor_job == At(st.jobs, At(st.builders, after).job)
             constraint_bound == earliest_predecessor_start
                 + max_time_gap(constraint, predecessor_execution_time)
             moves == EarliestStartMoves(constraint_bound, successor_job.earliest_start)
         IN IF remaining < 0 THEN [st EXCEPT !.ok = FALSE]
            ELSE ConstraintsForward(
              [jobs |-> IF moves
                        THEN [st.jobs EXCEPT
                                 ![At(st.builders, after).job + 1].earliest_start =
                                     constraint_bound]
                        ELSE st.jobs,
               builders |-> [st.builders EXCEPT ![after + 1].remaining = remaining],
               result |-> IF moves THEN "Modified" ELSE st.result,
               ok |-> TRUE],
              sorted_constraints, index + 1, bound_index,
              earliest_predecessor_start, predecessor_execution_time)

\* a forward pass that visits the jobs in the order of the backward pass
ForwardOrderNotReversed(completed_jobs) == completed_jobs

\* the order in which the forward pass visits the jobs
ForwardOrder(completed_jobs) ==
    [i \in 1..Len(completed_jobs) |-> completed_jobs[Len(completed_jobs) + 1 - i]]

\* for predecessor in completed_jobs.iter().rev(), from position i of order
RECURSIVE ConstraintsSweep(_, _, _, _)
ConstraintsSweep(st, sorted_constraints, order, i) ==
    IF i > Len(order) \/ ~st.ok THEN st
    ELSE LET predecessor == order[i]
             start_index == At(st.builders, predecessor).offset
             bound_index == start_index + At(st.builders, predecessor).count
         IN ConstraintsSweep(
              ConstraintsForward(st, sorted_constraints, start_index, bound_index,
                                 At(st.jobs, predecessor).earliest_start,
                                 At(st.jobs, predecessor).execution_time),
              sorted_constraints, order, i + 1)

\* strengthen_bounds_using_constraints: [problem, result]; result is
\* "Nothing", "Modified", "Cyclic", or "panic" when an assert! fails
strengthen_bounds_using_constraints(p) ==
    LET fresh == [i \in 1..Len(p.jobs) |-> ConstraintsJobBuilder(p.jobs[i].index)]
        blank == [i \in 1..Len(p.constraints) |-> Constraint(0, 0, 0, "StartToStart")]
        by_after == ConstraintsSort(
                      [builders |-> ConstraintsOffsets(
                           ConstraintsCount(fresh, p.constraints, 1, "before", "after"),
                           1, 0),
                       sorted_constraints |-> blank],
                      p.constraints, 1, "after")
        backward == ConstraintsWorklist(
                      [jobs |-> p.jobs, builders |-> by_after.builders,
                       next_jobs |-> ConstraintsSeed(by_after.builders, 1),
                       result |-> "Nothing", ok |-> TRUE, completed_jobs |-> <<>>],
                      by_after.sorted_constraints)
        reset == [i \in 1..Len(p.jobs) |->
                    [backward.builders[i] EXCEPT !.count = 0, !.remaining = 0]]
        by_before == ConstraintsSort(
                      [builders |-> ConstraintsOffsets(
                           ConstraintsCount(reset, p.constraints, 1, "after", "before"),
                           1, 0),
                       sorted_constraints |-> by_after.sorted_constraints],
                      p.constraints, 1, "before")
        forward == ConstraintsSweep(
                      [jobs |-> backward.jobs, builders |-> by_before.builders,
                       result |-> backward.result, ok |-> TRUE],
                      by_before.sorted_constraints,
                      ForwardOrder(backward.completed_jobs), 1)
    IN IF ~backward.ok THEN [problem |-> p, result |-> "panic"]
       ELSE IF Len(backward.completed_jobs) # Len(p.jobs)
       THEN [problem |-> [p EXCEPT !.jobs = backward.jobs], result |-> "Cyclic"]
       ELSE IF ~forward.ok THEN [problem |-> p, result |-> "panic"]
       ELSE [problem |-> [p EXCEPT !.jobs = forward.jobs], result |-> forward.result]

\* ---------------------------------------------------- bounds/occupation.rs
OccupationInterval(start, num_cores) == [start |-> start, num_cores |-> num_cores]

\* OccupationTimeline::new
OccupationTimeline_new(num_cores) ==
    [intervals |-> <<OccupationInterval(0, 0)>>, max_num_cores |-> num_cores]

\* Vec::insert and Vec::remove at a zero-based index
VecInsert(v, index, element) ==
    SubSeq(v, 1, index) \o <<element>> \o SubSeq(v, index + 1, Len(v))

VecRemove(v, index) == SubSeq(v, 1, index) \o SubSeq(v, index + 2, Len(v))

\* intervals.binary_search_by_key(&key, |i| i.start): Ok(index) of the step
\* that starts at key, or Err(index) where such a step would be inserted
binary_search_by_key(intervals, key) ==
    IF \E i \in 1..Len(intervals) : intervals[i].start = key
    THEN [ok |-> TRUE,
          index |-> (CHOOSE i \in 1..Len(intervals) : intervals[i].start = key) - 1]
    ELSE [ok |-> FALSE,
          index |-> Cardinality({i \in 1..Len(intervals) : intervals[i].start < key})]

\* an early return that lets an empty interval [t, t) through
NoCertainIntervalStrict(j) == get_earliest_finish(j) < j.latest_start

\* a job without a certainly busy interval: insert returns at once
NoCertainInterval(j) == get_earliest_finish(j) <= j.latest_start

\* if more_cores > self.max_num_cores
ExceedsCores(more_cores, max_num_cores) == more_cores > max_num_cores

\* the for loop counting the step at earliest_finish as well (not the
\* program's)
RECURSIVE InsertIncrementPastEnd(_, _, _, _)
InsertIncrementPastEnd(intervals, index, end_index, max_num_cores) ==
    IF index > end_index + 1 THEN [intervals |-> intervals, full |-> FALSE]
    ELSE IF ExceedsCores(At(intervals, index).num_cores + 1, max_num_cores)
    THEN [intervals |-> intervals, full |-> TRUE]
    ELSE InsertIncrementPastEnd(
            [intervals EXCEPT ![index + 1].num_cores = @ + 1],
            index + 1, end_index, max_num_cores)

\* for index in start_index ..= end_index: one more core on every step, or
\* full = TRUE at the first step that has no core left
RECURSIVE InsertIncrement(_, _, _, _)
InsertIncrement(intervals, index, end_index, max_num_cores) ==
    IF index > end_index THEN [intervals |-> intervals, full |-> FALSE]
    ELSE LET more_cores == At(intervals, index).num_cores + 1
         IN IF ExceedsCores(more_cores, max_num_cores)
            THEN [intervals |-> intervals, full |-> TRUE]
            ELSE InsertIncrement(
                    [intervals EXCEPT ![index + 1].num_cores = more_cores],
                    index + 1, end_index, max_num_cores)

\* while start_index > 0 && intervals[start_index].num_cores ==
\* intervals[start_index - 1].num_cores; end_index is a usize: below zero
\* the checked build panics and the other build wraps (kept as a negative
\* number here); state is [intervals, end_index, panic]
RECURSIVE InsertMergeStart(_, _, _)
InsertMergeStart(st, start_index, checked) ==
    IF start_index <= 0 THEN st
    ELSE IF start_index >= Len(st.intervals) THEN [st EXCEPT !.panic = TRUE]
    ELSE IF At(st.intervals, start_index).num_cores
                # At(st.intervals, start_index - 1).num_cores THEN st
    ELSE IF st.end_index = 0 /\ checked
    THEN [intervals |-> VecRemove(st.intervals, start_index),
          end_index |-> st.end_index, panic |-> TRUE]
    ELSE InsertMergeStart(
            [intervals |-> VecRemove(st.intervals, start_index),
             end_index |-> st.end_index - 1, panic |-> FALSE],
            start_index, checked)

\* while end_index + 1 < intervals.len() && intervals[end_index].num_cores
\* == intervals[end_index + 1].num_cores; a wrapped end_index of usize::MAX
\* makes end_index + 1 wrap to 0 and the index out of bounds
RECURSIVE InsertMergeEnd(_)
InsertMergeEnd(st) ==
    IF st.panic THEN st
    ELSE IF st.end_index = -1 THEN [st EXCEPT !.panic = TRUE]
    ELSE IF st.end_index < -1 THEN st
    ELSE IF st.end_index + 1 >= Len(st.intervals) THEN st
    ELSE IF At(st.intervals, st.end_index).num_cores
                # At(st.intervals, st.end_index + 1).num_cores THEN st
    ELSE InsertMergeEnd([st EXCEPT
                            !.intervals = VecRemove(st.intervals, st.end_index + 1)])

\* the same without looking where the following step starts
InsertExtendsNextAnywhere(intervals, next_start_index, num_cores, earliest_finish) ==
    /\ next_start_index < Len(intervals)
    /\ num_cores + 1 = At(intervals, next_start_index).num_cores

\* whether insert takes the step that follows latest_start for its own
InsertExtendsNext(intervals, next_start_index, num_cores, earliest_finish) ==
    /\ next_start_index < Len(intervals)
    /\ num_cores + 1 = At(intervals, next_start_index).num_cores
    /\ At(intervals, next_start_index).start >= earliest_finish

\* the end of insert: the merged steps become the timeline; a merge that
\* indexed below zero or out of bounds is a panic
InsertReturn(self, merged) ==
    [timeline |-> [self EXCEPT !.intervals = merged.intervals],
     returned |-> IF merged.panic THEN "panic" ELSE "false"]

\* insert after its for loop: true at once when a step was full, else the
\* two merging loops
InsertMerge(self, counted, start_index, end_index, checked) ==
    IF counted.full
    THEN [timeline |-> [self EXCEPT !.intervals = counted.intervals],
          returned |-> "true"]
    ELSE InsertReturn(self,
            InsertMergeEnd(InsertMergeStart(
                [intervals |-> counted.intervals, end_index |-> end_index,
                 panic |-> FALSE],
                start_index, checked)))

\* insert from its for loop on, with both edges in place
InsertCount(self, intervals, start_index, end_index, checked) ==
    InsertMerge(self,
        InsertIncrement(intervals, start_index, end_index, self.max_num_cores),
        start_index, end_index, checked)

\* insert at the left edge: found_start is the search for latest_start
InsertSplitStart(self, j, intervals, end_index, found_start, checked) ==
    IF found_start.ok
    THEN InsertCount(self, intervals, found_start.index, end_index, checked)
    ELSE IF found_start.index = 0
    THEN [timeline |-> self, returned |-> "panic"]
    ELSE IF InsertExtendsNext(intervals, found_start.index,
                At(intervals, found_start.index - 1).num_cores,
                get_earliest_finish(j))
    THEN InsertCount(self,
            [intervals EXCEPT ![found_start.index + 1].start = j.latest_start],
            found_start.index, end_index, checked)
    ELSE InsertCount(self,
            VecInsert(intervals, found_start.index,
                OccupationInterval(j.latest_start,
                    At(intervals, found_start.index - 1).num_cores)),
            found_start.index, end_index + 1, checked)

\* insert behind the right edge: intervals has a step at earliest_finish
InsertSearchStart(self, j, intervals, end_index, checked) ==
    InsertSplitStart(self, j, intervals, end_index,
        binary_search_by_key(intervals, j.latest_start), checked)

\* insert at the right edge: found_end is the search for earliest_finish
InsertSplitEnd(self, j, found_end, checked) ==
    IF found_end.index = 0
    THEN [timeline |-> self, returned |-> "panic"]
    ELSE IF found_end.ok
    THEN InsertSearchStart(self, j, self.intervals, found_end.index - 1, checked)
    ELSE InsertSearchStart(self, j,
            VecInsert(self.intervals, found_end.index,
                OccupationInterval(get_earliest_finish(j),
                    At(self.intervals, found_end.index - 1).num_cores)),
            found_end.index - 1, checked)

\* OccupationTimeline::insert: [timeline, returned]; returned is "true",
\* "false", or "panic" for an index below zero or out of bounds
insert(self, j, checked) ==
    IF NoCertainInterval(j)
    THEN [timeline |-> self, returned |-> "false"]
    ELSE InsertSplitEnd(self, j,
            binary_search_by_key(self.intervals, get_earliest_finish(j)), checked)

Min(a, b) == IF a < b THEN a ELSE b

Max(a, b) == IF a > b THEN a ELSE b

\* the steps at capacity among the steps start_index .. bound_index - 1
SaturatedSteps(self, start_index, bound_index) ==
    {index \in start_index..(bound_index - 1) :
        At(self.intervals, index).num_cores = self.max_num_cores}

\* return Some(index) at the first step at capacity, None without one
FirstSaturated(saturated) ==
    IF saturated = {}
    THEN [some |-> FALSE, index |-> 0, panic |-> FALSE]
    ELSE [some |-> TRUE, panic |-> FALSE,
          index |-> CHOOSE i \in saturated : \A k \in saturated : i <= k]

\* find_interruption behind its two searches; a start before the first step
\* makes start_index fall below zero: the checked build panics, the other
\* one wraps to an empty range
FindInterruptionFrom(self, found_start, bound_index, checked) ==
    IF ~found_start.ok /\ found_start.index = 0
    THEN [some |-> FALSE, index |-> 0, panic |-> checked]
    ELSE FirstSaturated(SaturatedSteps(self,
            IF found_start.ok THEN found_start.index ELSE found_start.index - 1,
            bound_index))

\* OccupationTimeline::find_interruption: [some, index, panic]
find_interruption(self, start, bound, checked) ==
    FindInterruptionFrom(self,
        binary_search_by_key(self.intervals, start),
        binary_search_by_key(self.intervals, bound).index, checked)

\* if old.get_earliest_finish() > old.latest_start
HadCertainInterval(old) == get_earliest_finish(old) > old.latest_start

RECURSIVE RefineEarliestStart(_, _, _, _)

\* the first loop after job.earliest_start was moved: break, or once more
RefineEarliestStartMoved(self, moved, old, checked) ==
    IF HadCertainInterval(old) /\ moved.earliest_start = moved.latest_start
    THEN [job |-> moved, panic |-> FALSE]
    ELSE RefineEarliestStart(self, moved, old, checked)

\* the first loop behind its find_interruption call
RefineEarliestStartFound(self, j, old, maybe, checked) ==
    IF maybe.panic THEN [job |-> j, panic |-> TRUE]
    ELSE IF ~maybe.some THEN [job |-> j, panic |-> FALSE]
    ELSE IF maybe.index + 1 >= Len(self.intervals) THEN [job |-> j, panic |-> TRUE]
    ELSE RefineEarliestStartMoved(self,
            [j EXCEPT !.earliest_start =
                IF HadCertainInterval(old)
                THEN Min(At(self.intervals, maybe.index + 1).start, old.latest_start)
                ELSE At(self.intervals, maybe.index + 1).start],
            old, checked)

\* the first loop of refine: earliest_start moves behind every step at
\* capacity; state is [job, panic]
RefineEarliestStart(self, j, old, checked) ==
    RefineEarliestStartFound(self, j, old,
        find_interruption(self, j.earliest_start,
            IF HadCertainInterval(old)
            THEN Min(get_earliest_finish(j), old.latest_start)
            ELSE get_earliest_finish(j),
            checked),
        checked)

RECURSIVE RefineLatestFinish(_, _, _, _)

\* the second loop after job.set_latest_finish: break, or once more; an
\* iteration that leaves the job as it found it repeats for ever
RefineLatestFinishMoved(self, j, moved, old, checked) ==
    IF HadCertainInterval(old) /\ moved.earliest_start = moved.latest_start
    THEN [job |-> moved, panic |-> FALSE, loops |-> FALSE]
    ELSE IF moved = j
    THEN [job |-> moved, panic |-> FALSE, loops |-> TRUE]
    ELSE RefineLatestFinish(self, moved, old, checked)

\* the second loop behind its find_interruption call
RefineLatestFinishFound(self, j, old, maybe, checked) ==
    IF maybe.panic THEN [job |-> j, panic |-> TRUE, loops |-> FALSE]
    ELSE IF ~maybe.some THEN [job |-> j, panic |-> FALSE, loops |-> FALSE]
    ELSE RefineLatestFinishMoved(self, j,
            set_latest_finish(j,
                IF HadCertainInterval(old)
                THEN Max(At(self.intervals, maybe.index).start,
                         get_earliest_finish(old))
                ELSE At(self.intervals, maybe.index).start),
            old, checked)

\* the second loop of refine: latest_finish moves before every step at
\* capacity; state is [job, panic, loops]: loops = TRUE when the loop never
\* ends
RefineLatestFinish(self, j, old, checked) ==
    RefineLatestFinishFound(self, j, old,
        find_interruption(self, Max(j.latest_start, get_earliest_finish(j)),
            get_latest_finish(j), checked),
        checked)

\* self.insert(..) inside refine: the value insert returns is dropped
RefineInserted(out) ==
    [timeline |-> out.timeline, panic |-> out.returned = "panic",
     returned |-> "ModifiedJobAndIntervals"]

\* the inserts with which refine records what became certain; state is
\* [timeline, returned, panic]
RefineInsert(st, j, checked) ==
    IF st.panic THEN st ELSE RefineInserted(insert(st.timeline, j, checked))

\* if job.latest_start < old.latest_start: insert what became certain on
\* the left
RefineInsertLeft(st, new, old, checked) ==
    IF new.latest_start < old.latest_start
    THEN RefineInsert(st,
            release_to_deadline(new.index, new.latest_start,
                old.latest_start - new.latest_start, old.latest_start),
            checked)
    ELSE st

\* if job.get_earliest_finish() > old.get_earliest_finish(): insert what
\* became certain on the right
RefineInsertRight(st, new, old, checked) ==
    IF get_earliest_finish(new) > get_earliest_finish(old)
    THEN RefineInsert(st,
            release_to_deadline(new.index, get_earliest_finish(old),
                get_earliest_finish(new) - get_earliest_finish(old),
                get_earliest_finish(new)),
            checked)
    ELSE st

\* if *job != old { .. }: the result and the re-inserts
RefineModified(st, new, old, checked) ==
    IF HadCertainInterval(old)
    THEN RefineInsertRight(RefineInsertLeft(st, new, old, checked), new, old, checked)
    ELSE IF get_earliest_finish(new) > new.latest_start
    THEN RefineInsert(st, new, checked)
    ELSE st

\* what refine returns for a job that changed
RefineReturn(new, recorded) ==
    [timeline |-> recorded.timeline, job |-> new,
     returned |-> IF recorded.panic THEN "panic" ELSE recorded.returned]

\* refine behind its two loops
RefineResult(self, new, old, checked) ==
    IF is_certainly_infeasible(new)
    THEN [timeline |-> self, job |-> new, returned |-> "Infeasible"]
    ELSE IF new = old
    THEN [timeline |-> self, job |-> new, returned |-> "Unchanged"]
    ELSE RefineReturn(new,
            RefineModified(
                [timeline |-> self, returned |-> "ModifiedJob", panic |-> FALSE],
                new, old, checked))

\* refine behind its second loop
RefineSecond(self, second, old, checked) ==
    IF second.panic
    THEN [timeline |-> self, job |-> second.job, returned |-> "panic"]
    ELSE IF second.loops
    THEN [timeline |-> self, job |-> second.job, returned |-> "loops"]
    ELSE RefineResult(self, second.job, old, checked)

\* refine behind its first loop
RefineFirst(self, first, old, checked) ==
    IF first.panic
    THEN [timeline |-> self, job |-> first.job, returned |-> "panic"]
    ELSE RefineSecond(self,
            RefineLatestFinish(self, first.job, old, checked), old, checked)

\* OccupationTimeline::refine: [timeline, job, returned]; returned is a
\* RefineResult, "panic", or "loops" when the second loop never ends
refine(self, j, checked) ==
    IF j.earliest_start >= j.latest_start
    THEN [timeline |-> self, job |-> j, returned |-> "Unchanged"]
    ELSE RefineFirst(self, RefineEarliestStart(self, j, j, checked), j, checked)

\* ------------------------------ strengthen_bounds_using_core_occupation
\* for job in &problem.jobs: insert, until one insert returns true; the
\* result is [timeline, returned] with returned "false" when all went in
RECURSIVE OccupationInsertAll(_, _, _, _)

OccupationInserted(out, jobs, i, checked) ==
    IF out.returned = "false"
    THEN OccupationInsertAll(out.timeline, jobs, i + 1, checked)
    ELSE [timeline |-> out.timeline, returned |-> out.returned]

OccupationInsertAll(tl, jobs, i, checked) ==
    IF i >= Len(jobs) THEN [timeline |-> tl, returned |-> "false"]
    ELSE OccupationInserted(insert(tl, At(jobs, i), checked), jobs, i, checked)

\* for job in &mut problem.jobs: refine; st is [timeline, jobs,
\* modified_interval, modified_anything, passes, returned], returned
\* "running" until a refine ends the function
RECURSIVE OccupationPass(_, _, _)

OccupationRefined(st, out, i, checked) ==
    IF out.returned \in {"Infeasible", "panic", "loops"}
    THEN [st EXCEPT !.timeline = out.timeline, !.jobs[i + 1] = out.job,
                    !.returned = out.returned]
    ELSE OccupationPass(
            [st EXCEPT !.timeline = out.timeline, !.jobs[i + 1] = out.job,
                !.modified_interval =
                    @ \/ out.returned = "ModifiedJobAndIntervals",
                !.modified_anything =
                    @ \/ out.returned \in {"ModifiedJobAndIntervals", "ModifiedJob"}],
            i + 1, checked)

OccupationPass(st, i, checked) ==
    IF i >= Len(st.jobs) THEN st
    ELSE OccupationRefined(st, refine(st.timeline, At(st.jobs, i), checked),
                           i, checked)

\* loop { .. if !modified_interval { break; } } and the result behind it
RECURSIVE OccupationLoop(_, _)

OccupationPassed(st, checked) ==
    IF st.returned # "running" THEN st
    ELSE IF ~st.modified_interval
    THEN [st EXCEPT !.returned =
             IF st.modified_anything THEN "Modified" ELSE "Unchanged"]
    ELSE OccupationLoop(st, checked)

OccupationLoop(st, checked) ==
    OccupationPassed(
        OccupationPass([st EXCEPT !.modified_interval = FALSE,
                                  !.passes = @ + 1], 0, checked),
        checked)

\* what the function leaves behind: [problem, timeline, result, passes]
OccupationReturn(p, st) ==
    [problem |-> [p EXCEPT !.jobs = st.jobs], timeline |-> st.timeline,
     result |-> st.returned, passes |-> st.passes]

\* the function behind its inserts
OccupationStart(p, inserted, checked) ==
    IF inserted.returned # "false"
    THEN [problem |-> p, timeline |-> inserted.timeline, passes |-> 0,
          result |-> IF inserted.returned = "true" THEN "Infeasible" ELSE "panic"]
    ELSE OccupationReturn(p,
            OccupationLoop(
                [timeline |-> inserted.timeline, jobs |-> p.jobs,
                 modified_interval |-> FALSE, modified_anything |-> FALSE,
                 passes |-> 0, returned |-> "running"],
                checked))

\* result is an OccupationStrengthenResult, "panic", or "loops" when a
\* refine never returns
strengthen_bounds_using_core_occupation(p, checked) ==
    OccupationStart(p,
        OccupationInsertAll(OccupationTimeline_new(p.num_cores),
                            p.jobs, 0, checked),
        checked)

\* ----------------------------------------------------- necessary/pack.rs
\* total += *job over the whole Vec
RECURSIVE SumTimes(_)
SumTimes(s) == IF s = <<>> THEN 0 ELSE Head(s) + SumTimes(Tail(s))

\* the sizes left in the order of the call
UnsortedTimes(s) == s

\* jobs.sort()
SortTimes(s) == SortSeq(s, LAMBDA a, b : a < b)

\* the same, forgetting that the smallest size may share the bin
WastedSpaceAlone(jobs, index, bin_size, smallest2) ==
    IF At(jobs, index) + At(jobs, 0) > bin_size
    THEN bin_size - At(jobs, index)
    ELSE IF index > 1 /\ At(jobs, index) + At(jobs, 1) > bin_size
    THEN bin_size - At(jobs, index)
    ELSE IF index > 2 /\ At(jobs, index) + smallest2 > bin_size
    THEN bin_size - At(jobs, 1) - At(jobs, index)
    ELSE 0

\* one turn of the loop over the sorted sizes: the space the bin of
\* jobs[index] certainly wastes
WastedSpace(jobs, index, bin_size, smallest2) ==
    IF At(jobs, index) + At(jobs, 0) > bin_size
    THEN bin_size - At(jobs, index)
    ELSE IF index > 1 /\ At(jobs, index) + At(jobs, 1) > bin_size
    THEN bin_size - At(jobs, 0) - At(jobs, index)
    ELSE IF index > 2 /\ At(jobs, index) + smallest2 > bin_size
    THEN bin_size - At(jobs, 1) - At(jobs, index)
    ELSE 0

\* for index in (1 .. jobs.len()).rev(): min_wasted_space
RECURSIVE MinWastedSpace(_, _, _, _)
MinWastedSpace(jobs, index, bin_size, smallest2) ==
    IF index < 1 THEN 0
    ELSE WastedSpace(jobs, index, bin_size, smallest2)
            + MinWastedSpace(jobs, index - 1, bin_size, smallest2)

\* the same by the total of the sizes alone
UnpackableByTotal(num_processors, bin_size, jobs, total) ==
    total > num_processors * bin_size

\* is_certainly_unpackable behind jobs.sort(), three or more sizes, two or
\* more processors
UnpackableSorted(num_processors, bin_size, jobs, total) ==
    IF Len(jobs) = 3
    THEN At(jobs, 0) + At(jobs, 1) > bin_size
    ELSE total + MinWastedSpace(jobs, Len(jobs) - 1, bin_size,
                    Min(At(jobs, 2), At(jobs, 0) + At(jobs, 1)))
            > num_processors * bin_size

\* is_certainly_unpackable behind its first loop
UnpackableTotal(num_processors, bin_size, jobs, total) ==
    IF Len(jobs) <= num_processors THEN FALSE
    ELSE IF total > num_processors * bin_size THEN TRUE
    ELSE IF num_processors = 1 \/ Len(jobs) <= 2 THEN FALSE
    ELSE UnpackableSorted(num_processors, bin_size, SortTimes(jobs), total)

is_certainly_unpackable(num_processors, bin_size, jobs) ==
    IF jobs = <<>> THEN FALSE
    ELSE IF \E i \in 1..Len(jobs) : jobs[i] > bin_size THEN TRUE
    ELSE UnpackableTotal(num_processors, bin_size, jobs, SumTimes(jobs))

\* ------------------------------------------------------- interval_tree.rs
\* if self.middle.len() < 50 (line 43)
LeafThreshold == 50

JobInterval(index, start, end) == [job |-> index, start |-> start, end |-> end]

\* IntervalTree::new(); the tree is kept as the sequence of its nodes, before
\* and after naming a node by its place in the sequence (0 for None) and the
\* first node being self; the stack is empty between two calls
IntervalTree_new == <<[split_time |-> 0, middle |-> <<>>, before |-> 0, after |-> 0]>>

\* IntervalTree::insert
TreeInsert(self, interval) ==
    [self EXCEPT ![1].middle = Append(@, interval)]

\* one element put in place by the stable sort: behind every element whose
\* key is not larger
RECURSIVE InsertByKey(_, _)
InsertByKey(sorted, i) ==
    IF sorted = <<>> THEN <<i>>
    ELSE IF i.start + i.end < Head(sorted).start + Head(sorted).end
    THEN <<i>> \o sorted
    ELSE <<Head(sorted)>> \o InsertByKey(Tail(sorted), i)

\* self.middle.sort_by_key(|i| i.start + i.end)
RECURSIVE sort_by_key(_)
sort_by_key(middle) ==
    IF middle = <<>> THEN <<>>
    ELSE InsertByKey(sort_by_key(SubSeq(middle, 1, Len(middle) - 1)),
                     middle[Len(middle)])

\* the split_time of a sorted middle (the times of the model are not negative,
\* where the division of the code and \div agree)
SplitTime(middle) ==
    (At(middle, Len(middle) \div 2).start + At(middle, Len(middle) \div 2).end) \div 2

\* an interval sent to before by where it starts
GoesBeforeByStart(i, split_time) == i.start <= split_time

\* the three outcomes of the closure handed to retain
GoesBefore(i, split_time) == i.end <= split_time
GoesAfter(i, split_time) == ~GoesBefore(i, split_time) /\ i.start >= split_time
Stays(i, split_time) == ~GoesBefore(i, split_time) /\ ~GoesAfter(i, split_time)

\* the nodes of a child moved behind k other nodes
ShiftNodes(nodes, k) ==
    [n \in 1..Len(nodes) |->
        [nodes[n] EXCEPT !.before = IF @ = 0 THEN 0 ELSE @ + k,
                         !.after = IF @ = 0 THEN 0 ELSE @ + k]]

\* self.before = Some(..), self.after = Some(..) with both children split
SplitJoin(split_time, middle, before, after) ==
    <<[split_time |-> split_time, middle |-> middle,
       before |-> 2, after |-> 2 + Len(before)]>>
        \o ShiftNodes(before, 1) \o ShiftNodes(after, 1 + Len(before))

\* whether split recurses without end: a node all of whose intervals move to
\* the same child hands that child the middle it had itself
RECURSIVE SplitOverflows(_, _)
SplitOverflowsAt(middle, split_time, threshold) ==
    \/ \A n \in 1..Len(middle) : GoesBefore(middle[n], split_time)
    \/ \A n \in 1..Len(middle) : GoesAfter(middle[n], split_time)
    \/ SplitOverflows(SelectSeq(middle, LAMBDA i : GoesBefore(i, split_time)), threshold)
    \/ SplitOverflows(SelectSeq(middle, LAMBDA i : GoesAfter(i, split_time)), threshold)

SplitOverflows(middle, threshold) ==
    IF Len(middle) < threshold THEN FALSE
    ELSE SplitOverflowsAt(sort_by_key(middle), SplitTime(sort_by_key(middle)), threshold)

\* the nodes split leaves of a node with this middle, when it returns
RECURSIVE SplitNodes(_, _)
SplitNodesAt(middle, split_time, threshold) ==
    SplitJoin(split_time,
              SelectSeq(middle, LAMBDA i : Stays(i, split_time)),
              SplitNodes(SelectSeq(middle, LAMBDA i : GoesBefore(i, split_time)), threshold),
              SplitNodes(SelectSeq(middle, LAMBDA i : GoesAfter(i, split_time)), threshold))

SplitNodes(middle, threshold) ==
    IF Len(middle) < threshold
    THEN <<[split_time |-> 0, middle |-> middle, before |-> 0, after |-> 0]>>
    ELSE SplitNodesAt(sort_by_key(middle), SplitTime(sort_by_key(middle)), threshold)

\* IntervalTree::split with the 50 of line 43 as threshold: the tree, or
\* "overflow" when the recursion of lines 65-66 never ends, or "panic" when
\* line 50 indexes an empty middle
split(self, threshold) ==
    IF threshold = 0 THEN [tree |-> self, result |-> "panic"]
    ELSE IF SplitOverflows(self[1].middle, threshold)
    THEN [tree |-> self, result |-> "overflow"]
    ELSE [tree |-> SplitNodes(self[1].middle, threshold), result |-> "returned"]

\* the candidates of a middle pushed to the output
QueryMiddle(middle, interval) ==
    SelectSeq(middle, LAMBDA candidate :
        candidate.start < interval.end /\ candidate.end > interval.start)

\* what the query pushes for a node and the nodes it stacks from there: the
\* node's middle, then the popped after child, then the before child
RECURSIVE QueryNode(_, _, _)
QueryNode(self, n, interval) ==
    QueryMiddle(self[n].middle, interval)
        \o (IF self[n].after # 0 /\ interval.end > self[n].split_time
            THEN QueryNode(self, self[n].after, interval) ELSE <<>>)
        \o (IF self[n].before # 0 /\ interval.start < self[n].split_time
            THEN QueryNode(self, self[n].before, interval) ELSE <<>>)

\* IntervalTree::query
query(self, interval, output_vec) == output_vec \o QueryNode(self, 1, interval)

\* -------------------------------------------------- sorted_job_iterator.rs
FatJob(index, value) == [job |-> index, value |-> value]

\* one FatJob put in place by the stable sort_by_key(|j| j.value)
RECURSIVE InsertByValue(_, _)
InsertByValue(sorted, fat) ==
    IF sorted = <<>> THEN <<fat>>
    ELSE IF fat.value < Head(sorted).value THEN <<fat>> \o sorted
    ELSE <<Head(sorted)>> \o InsertByValue(Tail(sorted), fat)

RECURSIVE SortByValue(_)
SortByValue(fat_jobs) ==
    IF fat_jobs = <<>> THEN <<>>
    ELSE InsertByValue(SortByValue(SubSeq(fat_jobs, 1, Len(fat_jobs) - 1)),
                       fat_jobs[Len(fat_jobs)])

\* SortedJobIterator::new, values being the compute_value of every job
SortedJobIterator_new(jobs, values) ==
    [jobs |-> SortByValue([i \in 1..Len(jobs) |-> FatJob(jobs[i].index, values[i])]),
     index |-> 0]

\* the condition of SortedJobIterator::next for |time| time <= next_time
IteratorHasNext(self, next_time) ==
    self.index < Len(self.jobs) /\ At(self.jobs, self.index).value <= next_time

\* SortedJobIterator::next, the condition being the set of values it holds
\* for and the Option returned a Vec of no or one job index
SortedJobIterator_next_skipping(self, condition) ==
    IF self.index < Len(self.jobs) /\ At(self.jobs, self.index).value \in condition
    THEN [self |-> [self EXCEPT !.index = @ + 1],
          returned |-> <<At(self.jobs, self.index).job>>]
    ELSE [self |-> [self EXCEPT !.index = IF @ < Len(self.jobs) THEN @ + 1 ELSE @],
          returned |-> <<>>]

SortedJobIterator_next(self, condition) ==
    IF self.index < Len(self.jobs) /\ At(self.jobs, self.index).value \in condition
    THEN [self |-> [self EXCEPT !.index = @ + 1],
          returned |-> <<At(self.jobs, self.index).job>>]
    ELSE [self |-> self, returned |-> <<>>]

\* ------------------------------------------------------ necessary/load.rs
LoadJob(index, maximum_remaining_time) ==
    [job |-> index, maximum_remaining_time |-> maximum_remaining_time]

\* the time that may remain, in the place of the time certainly spent
get_maximum_remaining_time(self, execution_time) == self.maximum_remaining_time

get_minimum_spent_time(self, execution_time) ==
    execution_time - self.maximum_remaining_time

\* a set of times as the sorted Vec of lines 53-54
RECURSIVE SortedTimes(_)
SortedTimes(times) ==
    IF times = {} THEN <<>>
    ELSE <<CHOOSE t \in times : \A u \in times : t <= u>>
            \o SortedTimes(times \ {CHOOSE t \in times : \A u \in times : t <= u})

\* the HashSet of lines 47-52, sorted
TimesOfInterest(jobs) ==
    SortedTimes(({jobs[i].latest_start : i \in 1..Len(jobs)}
                    \cup {get_latest_finish(jobs[i]) : i \in 1..Len(jobs)}) \ {0})

\* LoadTest::new; next_time, spent_time, earliest_step_arrival and
\* maximum_load_this_step are the locals of next
LoadTest_new(p) ==
    [jobs_by_earliest_start |->
         SortedJobIterator_new(p.jobs, [i \in 1..Len(p.jobs) |-> p.jobs[i].earliest_start]),
     jobs_by_latest_start |->
         SortedJobIterator_new(p.jobs, [i \in 1..Len(p.jobs) |-> p.jobs[i].latest_start]),
     times_of_interest |-> TimesOfInterest(p.jobs),
     current_time |-> 0, time_index |-> 0,
     certainly_finished_jobs_load |-> 0,
     minimum_executed_load |-> 0,
     maximum_executed_load |-> 0,
     possibly_running_jobs |-> <<>>,
     certainly_started_jobs |-> <<>>,
     next_time |-> 0, spent_time |-> 0, earliest_step_arrival |-> 0,
     maximum_load_this_step |-> 0]

\* the smallest of a time and the earliest_start of the jobs of a Vec
RECURSIVE MinEarliestStart(_, _, _)
MinEarliestStart(time, load_jobs, p) ==
    IF load_jobs = <<>> THEN time
    ELSE MinEarliestStart(Min(time, At(p.jobs, Head(load_jobs).job).earliest_start),
                          Tail(load_jobs), p)

\* lines 68-80
LoadNextTime(self, p) ==
    [self EXCEPT
        !.next_time = At(self.times_of_interest, self.time_index),
        !.time_index = @ + 1,
        !.spent_time = At(self.times_of_interest, self.time_index) - self.current_time,
        !.earliest_step_arrival =
            MinEarliestStart(At(self.times_of_interest, self.time_index),
                             self.possibly_running_jobs, p),
        !.maximum_load_this_step = 0]

\* lines 82-93: the retain_mut over possibly_running_jobs
LoadRetainRunning(self, p) ==
    [self EXCEPT
        !.maximum_load_this_step =
            SumTimes([i \in 1..Len(self.possibly_running_jobs) |->
                IF self.possibly_running_jobs[i].maximum_remaining_time > self.spent_time
                THEN self.spent_time
                ELSE self.possibly_running_jobs[i].maximum_remaining_time]),
        !.certainly_finished_jobs_load = @ +
            SumTimes([i \in 1..Len(self.possibly_running_jobs) |->
                IF self.possibly_running_jobs[i].maximum_remaining_time > self.spent_time
                THEN 0
                ELSE At(p.jobs, self.possibly_running_jobs[i].job).execution_time]),
        !.possibly_running_jobs =
            [i \in 1..Len(SelectSeq(@, LAMBDA r : r.maximum_remaining_time > self.spent_time)) |->
                LoadJob(SelectSeq(@, LAMBDA r : r.maximum_remaining_time > self.spent_time)[i].job,
                        SelectSeq(@, LAMBDA r : r.maximum_remaining_time > self.spent_time)[i]
                            .maximum_remaining_time - self.spent_time)]]

\* the body of that loop with the job that arrives finished left out of
\* certainly_finished_jobs_load (not the program's)
LoadArrivalUncounted(self, early_job) ==
    IF get_latest_finish(early_job) > self.next_time
    THEN [self EXCEPT
            !.jobs_by_earliest_start.index = @ + 1,
            !.possibly_running_jobs = Append(@,
                LoadJob(early_job.index, get_latest_finish(early_job) - self.next_time)),
            !.maximum_load_this_step = @ +
                Min(early_job.execution_time, self.next_time - early_job.earliest_start)]
    ELSE [self EXCEPT
            !.jobs_by_earliest_start.index = @ + 1,
            !.maximum_load_this_step = @ + early_job.execution_time,
            !.earliest_step_arrival = Min(@, early_job.earliest_start)]

\* lines 96-107: the body of the loop over jobs_by_earliest_start
LoadArrival(self, early_job) ==
    IF get_latest_finish(early_job) > self.next_time
    THEN [self EXCEPT
            !.jobs_by_earliest_start.index = @ + 1,
            !.possibly_running_jobs = Append(@,
                LoadJob(early_job.index, get_latest_finish(early_job) - self.next_time)),
            !.maximum_load_this_step = @ +
                Min(early_job.execution_time, self.next_time - early_job.earliest_start)]
    ELSE [self EXCEPT
            !.jobs_by_earliest_start.index = @ + 1,
            !.certainly_finished_jobs_load = @ + early_job.execution_time,
            !.maximum_load_this_step = @ + early_job.execution_time,
            !.earliest_step_arrival = Min(@, early_job.earliest_start)]

\* lines 95-108
RECURSIVE LoadArrivals(_, _)
LoadArrivals(self, p) ==
    IF ~IteratorHasNext(self.jobs_by_earliest_start, self.next_time) THEN self
    ELSE LoadArrivals(
            LoadArrival(self, At(p.jobs, At(self.jobs_by_earliest_start.jobs,
                                           self.jobs_by_earliest_start.index).job)),
            p)

\* lines 110-117: the retain_mut over certainly_started_jobs
LoadRetainStarted(self, p) ==
    [self EXCEPT
        !.certainly_started_jobs =
            [i \in 1..Len(SelectSeq(@, LAMBDA r : r.maximum_remaining_time > self.spent_time)) |->
                LoadJob(SelectSeq(@, LAMBDA r : r.maximum_remaining_time > self.spent_time)[i].job,
                        get_latest_finish(At(p.jobs,
                            SelectSeq(@, LAMBDA r : r.maximum_remaining_time > self.spent_time)[i].job))
                            - self.next_time)]]

\* lines 120-126: the body of the loop over jobs_by_latest_start
LoadStart(self, late_job) ==
    IF get_latest_finish(late_job) > self.next_time
    THEN [self EXCEPT
            !.jobs_by_latest_start.index = @ + 1,
            !.certainly_started_jobs = Append(@,
                LoadJob(late_job.index, get_latest_finish(late_job) - self.next_time))]
    ELSE [self EXCEPT !.jobs_by_latest_start.index = @ + 1]

\* lines 119-127
RECURSIVE LoadStarts(_, _)
LoadStarts(self, p) ==
    IF ~IteratorHasNext(self.jobs_by_latest_start, self.next_time) THEN self
    ELSE LoadStarts(
            LoadStart(self, At(p.jobs, At(self.jobs_by_latest_start.jobs,
                                         self.jobs_by_latest_start.index).job)),
            p)

\* one LoadJob put in place by the stable sort_by_key of line 130
RECURSIVE InsertByRemainingTime(_, _)
InsertByRemainingTime(sorted, load_job) ==
    IF sorted = <<>> THEN <<load_job>>
    ELSE IF load_job.maximum_remaining_time < Head(sorted).maximum_remaining_time
    THEN <<load_job>> \o sorted
    ELSE <<Head(sorted)>> \o InsertByRemainingTime(Tail(sorted), load_job)

RECURSIVE SortByRemainingTime(_)
SortByRemainingTime(load_jobs) ==
    IF load_jobs = <<>> THEN <<>>
    ELSE InsertByRemainingTime(
            SortByRemainingTime(SubSeq(load_jobs, 1, Len(load_jobs) - 1)),
            load_jobs[Len(load_jobs)])

\* line 130
LoadSortStarted(self) ==
    [self EXCEPT !.certainly_started_jobs = SortByRemainingTime(@)]

\* lines 131-148: the started jobs beyond num_cores count in full, the
\* others by their minimum spent time
LoadMinimum(self, p) ==
    [self EXCEPT
        !.minimum_executed_load = self.certainly_finished_jobs_load +
            SumTimes([i \in 1..Len(self.certainly_started_jobs) |->
                IF i <= Len(self.certainly_started_jobs) - p.num_cores
                THEN At(p.jobs, self.certainly_started_jobs[i].job).execution_time
                ELSE get_minimum_spent_time(self.certainly_started_jobs[i],
                        At(p.jobs, self.certainly_started_jobs[i].job).execution_time)])]

\* max_load_bound2 of lines 150-155
MaxLoadBound2(self, p) ==
    self.certainly_finished_jobs_load +
        SumTimes([i \in 1..Len(self.possibly_running_jobs) |->
            At(p.jobs, self.possibly_running_jobs[i].job).execution_time])

\* the maximum without the cap by the cores (not the program's)
LoadMaximumUncapped(self, p, earliest_step_arrival) ==
    [self EXCEPT
        !.earliest_step_arrival = earliest_step_arrival,
        !.maximum_executed_load =
            Min(@ + self.maximum_load_this_step, MaxLoadBound2(self, p)),
        !.current_time = self.next_time]

\* lines 150-162, earliest_step_arrival having its value of line 157
LoadMaximumFrom(self, p, earliest_step_arrival) ==
    [self EXCEPT
        !.earliest_step_arrival = earliest_step_arrival,
        !.maximum_executed_load =
            Min(@ + Min(p.num_cores * (self.next_time - earliest_step_arrival),
                        self.maximum_load_this_step),
                MaxLoadBound2(self, p)),
        !.current_time = self.next_time]

LoadMaximum(self, p) ==
    LoadMaximumFrom(self, p,
        Max(MinEarliestStart(self.earliest_step_arrival, self.possibly_running_jobs, p),
            self.current_time))

\* the result with equal loads taken for infeasible (not the program's)
LoadResultOnEqual(self) ==
    IF self.minimum_executed_load >= self.maximum_executed_load THEN "CertainlyInfeasible"
    ELSE IF self.time_index < Len(self.times_of_interest) THEN "Running"
    ELSE "Finished"

\* lines 164-170
LoadResult(self) ==
    IF self.minimum_executed_load > self.maximum_executed_load THEN "CertainlyInfeasible"
    ELSE IF self.time_index < Len(self.times_of_interest) THEN "Running"
    ELSE "Finished"

\* LoadTest::next, the test as it is left
LoadTest_next(self, p) ==
    LoadMaximum(
        LoadMinimum(
            LoadSortStarted(
                LoadStarts(
                    LoadRetainStarted(
                        LoadArrivals(
                            LoadRetainRunning(LoadNextTime(self, p), p),
                            p),
                        p),
                    p)),
            p),
        p)

\* the loop of run_feasibility_load_test, self being the test as the last
\* call of next left it
RECURSIVE LoadLoop(_, _)
LoadLoop(self, p) ==
    IF LoadResult(self) = "Running"
    THEN LoadLoop(LoadTest_next(self, p), p)
    ELSE LoadResult(self)

\* run_feasibility_load_test: "true", "false", or "panic" when line 68
\* indexes an empty times_of_interest
run_feasibility_load_test(p) ==
    IF TimesOfInterest(p.jobs) = <<>> THEN "panic"
    ELSE IF LoadLoop(LoadTest_next(LoadTest_new(p), p), p) = "CertainlyInfeasible"
    THEN "true"
    ELSE "false"

\* -------------------------------------------------- necessary/interval.rs
\* IntervalTest::new up to the split: the tree with the interval
\* [earliest_start, latest_finish) of every job in its middle
IntervalTestInserted(jobs) ==
    <<[split_time |-> 0,
       middle |-> [i \in 1..Len(jobs) |->
                      JobInterval(jobs[i].index, jobs[i].earliest_start,
                                  get_latest_finish(jobs[i]))],
       before |-> 0, after |-> 0]>>

\* the time of an interval before start_time alone (not the program's)
NonOverlappingTimeBefore(interval, start_time, end_time) ==
    IF interval.start < start_time THEN start_time - interval.start ELSE 0

\* lines 69-77: the time of an interval outside [start_time, end_time)
NonOverlappingTime(interval, start_time, end_time) ==
    IF interval.end > end_time
    THEN Max(IF interval.start < start_time THEN start_time - interval.start ELSE 0,
             interval.end - end_time)
    ELSE IF interval.start < start_time THEN start_time - interval.start ELSE 0

\* lines 79-85: whether the job of an interval adds a required load, and
\* that load
HasRequiredLoad(p, interval, start_time, end_time) ==
    At(p.jobs, interval.job).execution_time
        > NonOverlappingTime(interval, start_time, end_time)

RequiredLoad(p, interval, start_time, end_time) ==
    Min(At(p.jobs, interval.job).execution_time
            - NonOverlappingTime(interval, start_time, end_time),
        end_time - start_time)

\* lines 68-86: required_loads for the relevant jobs
RequiredLoadsOf(p, loaded, start_time, end_time) ==
    [i \in 1..Len(loaded) |-> RequiredLoad(p, loaded[i], start_time, end_time)]

RequiredLoads(p, relevant_jobs, start_time, end_time) ==
    RequiredLoadsOf(p,
        SelectSeq(relevant_jobs,
                  LAMBDA interval : HasRequiredLoad(p, interval, start_time, end_time)),
        start_time, end_time)

\* IntervalTest::next for the job at next_job_index, but for the
\* distinction of Running and Finished
IntervalNextUnpackable(p, interval_tree, next_job) ==
    is_certainly_unpackable(p.num_cores,
        get_latest_finish(next_job) - next_job.earliest_start,
        RequiredLoads(p,
            query(interval_tree,
                  JobInterval(next_job.index, next_job.earliest_start,
                              get_latest_finish(next_job)),
                  <<>>),
            next_job.earliest_start, get_latest_finish(next_job)))

\* the loop of run_feasibility_interval_test from next_job_index on
RECURSIVE IntervalLoop(_, _, _)
IntervalLoop(p, interval_tree, next_job_index) ==
    IF IntervalNextUnpackable(p, interval_tree, At(p.jobs, next_job_index)) THEN "true"
    ELSE IF next_job_index + 1 < Len(p.jobs)
    THEN IntervalLoop(p, interval_tree, next_job_index + 1)
    ELSE "false"

\* run_feasibility_interval_test: "true", "false", "overflow" when the split
\* of line 36 does not return, or "panic" when line 50 indexes no job
run_feasibility_interval_test(p) ==
    IF split(IntervalTestInserted(p.jobs), LeafThreshold).result # "returned"
    THEN split(IntervalTestInserted(p.jobs), LeafThreshold).result
    ELSE IF p.jobs = <<>> THEN "panic"
    ELSE IntervalLoop(p, split(IntervalTestInserted(p.jobs), LeafThreshold).tree, 0)

\* IntervalTest::new behind a split that returned
IntervalTest_new(p) ==
    [interval_tree |-> split(IntervalTestInserted(p.jobs), LeafThreshold).tree,
     next_job_index |-> 0, relevant_jobs |-> <<>>, start_time |-> 0, end_time |-> 0,
     required_loads |-> <<>>, corresponding_jobs |-> <<>>]

\* lines 50-63 of IntervalTest::next: the window of the next job and the
\* jobs the tree finds for it
IntervalQueried(self, next_job) ==
    [self EXCEPT
        !.next_job_index = @ + 1,
        !.start_time = next_job.earliest_start,
        !.end_time = get_latest_finish(next_job),
        !.relevant_jobs =
            query(self.interval_tree,
                  JobInterval(next_job.index, next_job.earliest_start,
                              get_latest_finish(next_job)),
                  self.relevant_jobs)]

\* lines 65-88: the loads and their jobs, as they are handed to the oracle
IntervalLoaded(self, p) ==
    [self EXCEPT
        !.required_loads =
            RequiredLoads(p, self.relevant_jobs, self.start_time, self.end_time),
        !.corresponding_jobs =
            [i \in 1..Len(RequiredLoads(p, self.relevant_jobs,
                                        self.start_time, self.end_time)) |->
                SelectSeq(self.relevant_jobs,
                          LAMBDA interval :
                              HasRequiredLoad(p, interval, self.start_time,
                                              self.end_time))[i].job],
        !.relevant_jobs = <<>>]

\* IntervalTest::next, the test as it is left
IntervalTest_next(self, p) ==
    IntervalLoaded(IntervalQueried(self, At(p.jobs, self.next_job_index)), p)

\* lines 89-95
IntervalResult(self, p) ==
    IF is_certainly_unpackable(p.num_cores, self.end_time - self.start_time,
                               self.required_loads)
    THEN "CertainlyInfeasible"
    ELSE IF self.next_job_index < Len(p.jobs) THEN "Running"
    ELSE "Finished"

\* Problem::is_certainly_infeasible
problem_is_certainly_infeasible(p) ==
    \E i \in 1..Len(p.jobs) : is_certainly_infeasible(p.jobs[i])

\* ------------------------------------------ simulator/core_availability.rs
CoreAvailability_new(num_cores) ==
    [finish_times |-> [i \in 1..num_cores |-> 0], last_start_time |-> 0]

next_start_time(self) == Max(At(self.finish_times, 0), self.last_start_time)

second_start_time(self) == Max(At(self.finish_times, 1), self.last_start_time)

get_num_cores(self) == Len(self.finish_times)

\* CoreAvailability::schedule: the core that is free first takes the job
CoreAvailability_schedule(self, start, duration) ==
    [finish_times |-> SortTimes([self.finish_times EXCEPT ![1] = start + duration]),
     last_start_time |-> start]

\* ------------------------------------------------------- simulator/mod.rs
RECURSIVE MaximumSuspension(_, _, _)

\* the largest delay of the constraints, from 0
MaximumSuspension(constraints, i, maximum_suspension) ==
    IF i > Len(constraints) THEN maximum_suspension
    ELSE MaximumSuspension(constraints, i + 1,
            Max(maximum_suspension, constraints[i].delay))

\* create_predecessor_mapping: the constraints of every job it is the after
\* of, in the order of the problem, and the largest delay
create_predecessor_mapping(p) ==
    [mapping |-> [i \in 1..Len(p.jobs) |->
                    SelectSeq(p.constraints, LAMBDA c : c.after = i - 1)],
     maximum_suspension |-> MaximumSuspension(p.constraints, 1, 0)]

RunningJob(index, started_at, finishes_at) ==
    [job |-> index, started_at |-> started_at, finishes_at |-> finishes_at]

Simulator_new(p) ==
    [finished_jobs |-> [i \in 1..Len(p.jobs) |-> FALSE],
     running_jobs |-> <<>>,
     core_availability |-> CoreAvailability_new(p.num_cores),
     predecessor_mapping |-> create_predecessor_mapping(p).mapping,
     maximum_suspension |-> create_predecessor_mapping(p).maximum_suspension,
     num_finished_jobs |-> 0,
     missed_deadline |-> FALSE]

\* self.running_jobs.iter().find(|rj| rj.job == before): the Option as a Vec
FindRunning(running_jobs, before) ==
    IF SelectSeq(running_jobs, LAMBDA rj : rj.job = before) = <<>> THEN <<>>
    ELSE <<Head(SelectSeq(running_jobs, LAMBDA rj : rj.job = before))>>

\* the bound taken from the start of the predecessor whatever the type (not
\* the program's)
ReadyBoundFromStart(constraint, running_job) ==
    constraint.delay + running_job.started_at

\* the bound one constraint puts on the start, from the running predecessor
ReadyBound(constraint, running_job) ==
    constraint.delay +
        (IF constraint.constraint_type = "FinishToStart"
         THEN running_job.finishes_at ELSE running_job.started_at)

RECURSIVE PredictReady(_, _, _, _)

\* one turn of the loop of predict_start_time for a predecessor that has not
\* finished: expect() panics when it is not running either
PredictRunning(self, constraints, i, ready_time, maybe) ==
    IF maybe = <<>> THEN [time |-> ready_time, panic |-> TRUE]
    ELSE PredictReady(self, constraints, i + 1,
            Max(ready_time, ReadyBound(constraints[i], maybe[1])))

\* the loop of predict_start_time over the constraints of the job
PredictReady(self, constraints, i, ready_time) ==
    IF i > Len(constraints) THEN [time |-> ready_time, panic |-> FALSE]
    ELSE IF At(self.finished_jobs, constraints[i].before)
    THEN PredictReady(self, constraints, i + 1, ready_time)
    ELSE PredictRunning(self, constraints, i, ready_time,
            FindRunning(self.running_jobs, constraints[i].before))

\* the ready time of the job behind its constraints: [time, panic]
ReadyTime(self, j) ==
    PredictReady(self, At(self.predecessor_mapping, j.index), 1, j.earliest_start)

\* Simulator::predict_start_time: [time, panic]
predict_start_time(self, j) ==
    [time |-> Max(ReadyTime(self, j).time, next_start_time(self.core_availability)),
     panic |-> ReadyTime(self, j).panic]

\* the end of the job, or the second free core when there is one
NextStartBound(self, j, current_start_time) ==
    IF get_num_cores(self.core_availability) > 1
    THEN Min(current_start_time + j.execution_time,
             second_start_time(self.core_availability))
    ELSE current_start_time + j.execution_time

\* Simulator::predict_next_start_time: [time, panic]
predict_next_start_time(self, j) ==
    [time |-> Max(predict_start_time(self, j).time,
                  NextStartBound(self, j, predict_start_time(self, j).time)),
     panic |-> predict_start_time(self, j).panic]

\* Vec::swap_remove: the last element takes the place of the removed one
swap_remove(v, index) ==
    IF index = Len(v) - 1 THEN SubSeq(v, 1, Len(v) - 1)
    ELSE SubSeq([v EXCEPT ![index + 1] = v[Len(v)]], 1, Len(v) - 1)

RECURSIVE ScheduleRetire(_, _)

\* the while loop of schedule: a running job is finished once the first free
\* core is free no earlier than its finish plus the largest delay
ScheduleRetire(self, index) ==
    IF index >= Len(self.running_jobs) THEN self
    ELSE IF next_start_time(self.core_availability)
              >= At(self.running_jobs, index).finishes_at + self.maximum_suspension
    THEN ScheduleRetire(
            [self EXCEPT
                !.finished_jobs[At(self.running_jobs, index).job + 1] = TRUE,
                !.num_finished_jobs = @ + 1,
                !.running_jobs = swap_remove(@, index)],
            index)
    ELSE ScheduleRetire(self, index + 1)

\* schedule up to its while loop
ScheduleStart(self, j, start_time) ==
    [self EXCEPT
        !.missed_deadline = @ \/ start_time > j.latest_start,
        !.core_availability =
            CoreAvailability_schedule(@, start_time, j.execution_time)]

\* schedule behind predict_start_time: the loop, then
\* self.running_jobs.push(RunningJob { .. })
ScheduleAt(self, j, start_time) ==
    [ScheduleRetire(ScheduleStart(self, j, start_time), 0) EXCEPT
        !.running_jobs =
            Append(@, RunningJob(j.index, start_time, start_time + j.execution_time))]

\* a schedule that looks at the cores and the release only (not the
\* program's)
ScheduleWithoutPredecessors(self, j) ==
    [self |-> ScheduleAt(self, j,
                 Max(j.earliest_start, next_start_time(self.core_availability))),
     panic |-> FALSE]

\* Simulator::schedule: [self, panic]
Simulator_schedule(self, j) ==
    IF predict_start_time(self, j).panic THEN [self |-> self, panic |-> TRUE]
    ELSE [self |-> ScheduleAt(self, j, predict_start_time(self, j).time),
          panic |-> FALSE]

has_missed_deadline(self) == self.missed_deadline

num_dispatched_jobs(self) == self.num_finished_jobs + Len(self.running_jobs)

\* ------------------------------------------ solver/precedence_tracker.rs
\* the after of the constraints whose before is the job, in their order
SuccessorsOf(constraints, index) ==
    [k \in 1..Len(SelectSeq(constraints, LAMBDA c : c.before = index)) |->
        SelectSeq(constraints, LAMBDA c : c.before = index)[k].after]

RECURSIVE SuccessorsUpTo(_, _)

\* the successors of the jobs below index, job after job
SuccessorsUpTo(p, index) ==
    IF index = 0 THEN <<>>
    ELSE SuccessorsUpTo(p, index - 1) \o SuccessorsOf(p.constraints, index - 1)

\* PrecedenceTracker::new: successor_offsets holds for job j the place of its
\* first successor at 2j and the number of its successors at 2j + 1
PrecedenceTracker_new(p) ==
    [total_predecessors |->
        [i \in 1..Len(p.jobs) |->
            Len(SelectSeq(p.constraints, LAMBDA c : c.after = i - 1))],
     successors |-> SuccessorsUpTo(p, Len(p.jobs)),
     successor_offsets |->
        [i \in 1..(2 * Len(p.jobs)) |->
            IF (i - 1) % 2 = 0 THEN Len(SuccessorsUpTo(p, (i - 1) \div 2))
            ELSE Len(SuccessorsOf(p.constraints, (i - 1) \div 2))]]

clone_total_predecessors(self) == self.total_predecessors

RECURSIVE UpdateRemaining(_, _, _, _)

\* the loop of update_remaining_predecessors from index to end
UpdateRemaining(self, index, end, remaining_predecessors) ==
    IF index >= end THEN remaining_predecessors
    ELSE UpdateRemaining(self, index + 1, end,
            [remaining_predecessors EXCEPT ![At(self.successors, index) + 1] = @ - 1])

\* the counts left as they are (not the program's)
RemainingNotUpdated(self, finished_job, remaining_predecessors) ==
    remaining_predecessors

\* PrecedenceTracker::update_remaining_predecessors
update_remaining_predecessors(self, finished_job, remaining_predecessors) ==
    UpdateRemaining(self, At(self.successor_offsets, 2 * finished_job),
        At(self.successor_offsets, 2 * finished_job)
            + At(self.successor_offsets, 2 * finished_job + 1),
        remaining_predecessors)

\* ------------------------------------------------------- solver/queue.rs
\* HeuristicJobQueue::new (the same in solver/heuristic_job_queue.rs)
HeuristicJobQueue_new(p, precedence) ==
    [already_dispatched |-> [i \in 1..Len(p.jobs) |-> FALSE],
     remaining_predecessors |-> clone_total_predecessors(precedence),
     first_unscheduled |-> 0]

\* the return of choose_next with the job at next_order: [self, job, panic]
ChooseReturn(self, precedence, ordering, next_order) ==
    [self |-> [self EXCEPT
                  !.already_dispatched[next_order + 1] = TRUE,
                  !.remaining_predecessors =
                      update_remaining_predecessors(precedence,
                          At(ordering, next_order), @)],
     job |-> At(ordering, next_order),
     panic |-> FALSE]

\* the end of the ordering: the last valid job, or the panic of expect()
ChooseLast(self, precedence, ordering, last_valid) ==
    IF last_valid = <<>> THEN [self |-> self, job |-> 0, panic |-> TRUE]
    ELSE ChooseReturn(self, precedence, ordering, last_valid[1])

\* if self.first_unscheduled == next_order { self.first_unscheduled += 1 }
SkipDispatched(self, next_order) ==
    [self EXCEPT !.first_unscheduled = IF @ = next_order THEN @ + 1 ELSE @]

\* if can_schedule_safely || last_valid.is_none() { last_valid = Some(..) }
LastValid(can_schedule_safely, last_valid, next_order) ==
    IF can_schedule_safely \/ last_valid = <<>> THEN <<next_order>> ELSE last_valid

RECURSIVE ChooseLoop(_, _, _, _, _, _, _)

\* the turn of the loop for a job that is not dispatched and has no remaining
\* predecessor; safe holds the jobs forced_tracker.can_schedule_safely allows
\* at the time predict_next_start_time gives for them
ChooseAllowed(self, precedence, skip_remaining, ordering, safe, next_order, last_valid) ==
    IF At(ordering, next_order) \notin safe
    THEN ChooseLoop(self, precedence, skip_remaining, ordering, safe, next_order + 1,
            LastValid(FALSE, last_valid, next_order))
    ELSE IF skip_remaining > 0
    THEN ChooseLoop(self, precedence, skip_remaining - 1, ordering, safe,
            next_order + 1, <<next_order>>)
    ELSE ChooseReturn(self, precedence, ordering, next_order)

\* the loop of choose_next of solver/queue.rs
ChooseLoop(self, precedence, skip_remaining, ordering, safe, next_order, last_valid) ==
    IF next_order >= Len(self.already_dispatched)
    THEN ChooseLast(self, precedence, ordering, last_valid)
    ELSE IF At(self.already_dispatched, next_order)
    THEN ChooseLoop(SkipDispatched(self, next_order), precedence, skip_remaining,
            ordering, safe, next_order + 1, last_valid)
    ELSE IF At(self.remaining_predecessors, At(ordering, next_order)) # 0
    THEN ChooseLoop(self, precedence, skip_remaining, ordering, safe,
            next_order + 1, last_valid)
    ELSE ChooseAllowed(self, precedence, skip_remaining, ordering, safe,
            next_order, last_valid)

\* HeuristicJobQueue::choose_next of solver/queue.rs: [self, job, panic]
choose_next(self, precedence, to_skip, ordering, safe) ==
    ChooseLoop(self, precedence, to_skip, ordering, safe, self.first_unscheduled, <<>>)

\* ----------------------------------------- solver/heuristic_job_queue.rs
RECURSIVE HeuristicLoop(_, _, _, _, _, _)

\* the loop of choose_next of solver/heuristic_job_queue.rs, which knows no
\* forced jobs
HeuristicLoop(self, precedence, skip_remaining, ordering, next_order, last_valid) ==
    IF next_order >= Len(self.already_dispatched)
    THEN ChooseLast(self, precedence, ordering, last_valid)
    ELSE IF At(self.already_dispatched, next_order)
    THEN HeuristicLoop(SkipDispatched(self, next_order), precedence, skip_remaining,
            ordering, next_order + 1, last_valid)
    ELSE IF At(self.remaining_predecessors, At(ordering, next_order)) # 0
    THEN HeuristicLoop(self, precedence, skip_remaining, ordering,
            next_order + 1, last_valid)
    ELSE IF skip_remaining > 0
    THEN HeuristicLoop(self, precedence, skip_remaining - 1, ordering,
            next_order + 1, <<next_order>>)
    ELSE ChooseReturn(self, precedence, ordering, next_order)

\* HeuristicJobQueue::choose_next of solver/heuristic_job_queue.rs
heuristic_choose_next(self, precedence, to_skip, ordering) ==
    HeuristicLoop(self, precedence, to_skip, ordering, self.first_unscheduled, <<>>)

\* ------------------------------------------------------------- the inputs
\* the Vecs of length 0..n over a set (a parsed file has any number of rows)
SeqsUpTo(S, n) == UNION {[1..k -> S] : k \in 0..n}

\* parse_problem: job i is release_to_deadline(i, release, execution, deadline)
ParsedJobs(n, deadlines) ==
    {[i \in 1..n |-> release_to_deadline(i - 1, in[i][1], in[i][2], in[i][3])] :
        in \in [1..n -> (0..MaxRelease) \X (1..MaxExecutionTime) \X deadlines]}

ParsedConstraints(n) ==
    SeqsUpTo({Constraint(b, a, d, t) :
                 b \in 0..(n - 1), a \in 0..(n - 1), d \in 0..MaxDelay,
                 t \in ConstraintType}, MaxConstraints)

\* --------------------------------------- the permutation and its way back
InitPermutation ==
    /\ pc = "parsed"
    /\ \E n \in 1..MaxJobs :
         \E jobs \in ParsedJobs(n, {MaxDeadline}) :
           \E constraints \in ParsedConstraints(n) :
              problem = [jobs |-> jobs, constraints |-> constraints, num_cores |-> 1]
    /\ original = problem
    /\ permutation = NoValue
    /\ result = NoValue
    /\ previous = NoValue
    /\ timeline = NoValue
    /\ called = NoValue
    /\ job = NoValue
    /\ build = NoValue
    /\ found = NoValue
    /\ tree = NoValue
    /\ output = NoValue
    /\ pushed = NoValue
    /\ occupation = NoValue
    /\ printed = NoValue
    /\ iterator = NoValue
    /\ taken = NoValue
    /\ load_test = NoValue
    /\ interval_test = NoValue
    /\ simulator = NoValue
    /\ queue = NoValue

\* let maybe_permutation = ProblemPermutation::possible(&mut problem)
Possible ==
    /\ pc = "parsed"
    /\ LET out == possible(problem)
       IN /\ problem' = out.problem
          /\ permutation' = out.permutation
          /\ result' = out.returned
          /\ pc' = IF out.returned = "panic" THEN "panic"
                   ELSE IF out.returned = "None" THEN "cyclic" ELSE "permuted"
    /\ UNCHANGED <<original, previous, timeline, called, job, build, found,
                   tree, output, pushed,
                   occupation, printed,
                   iterator, taken,
                   load_test,
                   interval_test,
                   simulator,
                   queue>>

\* permutation.transform_back(&mut problem)
TransformBack ==
    /\ pc = "permuted"
    /\ problem' = transform_back(permutation, problem)
    /\ pc' = "restored"
    /\ UNCHANGED <<original, permutation, result, previous, timeline, called, job, build, found,
                   tree, output, pushed,
                   occupation, printed,
                   iterator, taken,
                   load_test,
                   interval_test,
                   simulator,
                   queue>>

NextPermutation == Possible \/ TransformBack

SpecPermutation == InitPermutation /\ [][NextPermutation]_vars

\* --------------------------- the strengthening along the constraints, twice
InitConstraints ==
    /\ pc = "parsed"
    /\ \E n \in 1..MaxJobs :
         \E jobs \in ParsedJobs(n, {MaxDeadline}) :
           \E constraints \in ParsedConstraints(n) :
              problem = [jobs |-> jobs, constraints |-> constraints, num_cores |-> 1]
    /\ original = problem
    /\ permutation = NoValue
    /\ result = NoValue
    /\ previous = problem
    /\ timeline = NoValue
    /\ called = NoValue
    /\ job = NoValue
    /\ build = NoValue
    /\ found = NoValue
    /\ tree = NoValue
    /\ output = NoValue
    /\ pushed = NoValue
    /\ occupation = NoValue
    /\ printed = NoValue
    /\ iterator = NoValue
    /\ taken = NoValue
    /\ load_test = NoValue
    /\ interval_test = NoValue
    /\ simulator = NoValue
    /\ queue = NoValue

\* strengthen_bounds_using_constraints(&mut problem), the first call
StrengthenConstraints ==
    /\ pc = "parsed"
    /\ LET out == strengthen_bounds_using_constraints(problem)
       IN /\ problem' = out.problem
          /\ result' = out.result
          /\ pc' = IF out.result = "panic" THEN "panic"
                   ELSE IF out.result = "Cyclic" THEN "cyclic" ELSE "strengthened"
    /\ previous' = problem
    /\ UNCHANGED <<original, permutation, timeline, called, job, build, found,
                   tree, output, pushed,
                   occupation, printed,
                   iterator, taken,
                   load_test,
                   interval_test,
                   simulator,
                   queue>>

\* strengthen_bounds_using_constraints(&mut problem), called once more
StrengthenConstraintsAgain ==
    /\ pc = "strengthened"
    /\ LET out == strengthen_bounds_using_constraints(problem)
       IN /\ problem' = out.problem
          /\ result' = out.result
          /\ pc' = IF out.result = "panic" THEN "panic" ELSE "again"
    /\ previous' = problem
    /\ UNCHANGED <<original, permutation, timeline, called, job, build, found,
                   tree, output, pushed,
                   occupation, printed,
                   iterator, taken,
                   load_test,
                   interval_test,
                   simulator,
                   queue>>

NextConstraints == StrengthenConstraints \/ StrengthenConstraintsAgain

SpecConstraints == InitConstraints /\ [][NextConstraints]_vars

\* ------------------------------- a timeline under inserts and refinements
\* the jobs handed to the timeline: release_to_deadline of times up to
\* MaxTime, feasible on their own or not
TimelineJobs ==
    {release_to_deadline(0, in[1], in[2], in[3]) :
        in \in {x \in (0..MaxTime) \X (1..MaxDuration) \X (1..MaxTime) :
                    x[1] + x[2] <= MaxTime /\ x[3] >= x[2]}}

\* no find_interruption call made yet
NoInterruption == [start |-> 0, bound |-> 0, some |-> FALSE, index |-> 0]

InitTimeline ==
    /\ pc = "ready"
    /\ \E num_cores \in 1..MaxCores : timeline = OccupationTimeline_new(num_cores)
    /\ build \in {"checked", "wrapping"}
    /\ found = NoInterruption
    /\ previous = timeline
    /\ called = [name |-> "new", job |-> Job_dummy]
    /\ job = Job_dummy
    /\ result = "new"
    /\ problem = NoValue
    /\ original = NoValue
    /\ permutation = NoValue
    /\ tree = NoValue
    /\ output = NoValue
    /\ pushed = NoValue
    /\ occupation = NoValue
    /\ printed = NoValue
    /\ iterator = NoValue
    /\ taken = NoValue
    /\ load_test = NoValue
    /\ interval_test = NoValue
    /\ simulator = NoValue
    /\ queue = NoValue

\* the position after a call that returned, panicked or never returned
After(returned) ==
    IF returned = "panic" THEN "panic"
    ELSE IF returned = "loops" THEN "looping" ELSE "returned"

\* timeline.insert(job)
Insert ==
    /\ pc = "ready"
    /\ \E j \in TimelineJobs :
         LET out == insert(timeline, j, build = "checked")
         IN /\ timeline' = out.timeline
            /\ result' = out.returned
            /\ called' = [name |-> "insert", job |-> j]
            /\ job' = j
            /\ pc' = After(out.returned)
    /\ previous' = timeline
    /\ UNCHANGED <<problem, original, permutation, build, found,
                   tree, output, pushed,
                   occupation, printed,
                   iterator, taken,
                   load_test,
                   interval_test,
                   simulator,
                   queue>>

\* timeline.refine(&mut job)
Refine ==
    /\ pc = "ready"
    /\ \E j \in TimelineJobs :
         LET out == refine(timeline, j, build = "checked")
         IN /\ timeline' = out.timeline
            /\ result' = out.returned
            /\ called' = [name |-> "refine", job |-> j]
            /\ job' = out.job
            /\ pc' = After(out.returned)
    /\ previous' = timeline
    /\ UNCHANGED <<problem, original, permutation, build, found,
                   tree, output, pushed,
                   occupation, printed,
                   iterator, taken,
                   load_test,
                   interval_test,
                   simulator,
                   queue>>

\* the caller is done with what the call returned and goes on
NextCall ==
    /\ pc = "returned"
    /\ pc' = "ready"
    /\ previous' = timeline
    /\ called' = [name |-> "new", job |-> Job_dummy]
    /\ job' = Job_dummy
    /\ result' = "new"
    /\ found' = NoInterruption
    /\ UNCHANGED <<timeline, problem, original, permutation, build,
                   tree, output, pushed,
                   occupation, printed,
                   iterator, taken,
                   load_test,
                   interval_test,
                   simulator,
                   queue>>

\* timeline.find_interruption(start, bound), as refine and the tests call it
FindInterruption ==
    /\ pc = "ready"
    /\ \E start \in 0..MaxTime, bound \in 0..MaxTime :
         LET out == find_interruption(timeline, start, bound, build = "checked")
         IN /\ found' = [start |-> start, bound |-> bound,
                         some |-> out.some, index |-> out.index]
            /\ result' = IF out.some THEN "Some" ELSE "None"
            /\ pc' = IF out.panic THEN "panic" ELSE "returned"
    /\ called' = [name |-> "find_interruption", job |-> Job_dummy]
    /\ previous' = timeline
    /\ job' = Job_dummy
    /\ UNCHANGED <<timeline, problem, original, permutation, build,
                   tree, output, pushed,
                   occupation, printed,
                   iterator, taken,
                   load_test,
                   interval_test,
                   simulator,
                   queue>>

NextTimeline == Insert \/ Refine \/ FindInterruption \/ NextCall

SpecTimeline == InitTimeline /\ [][NextTimeline]_vars

\* ------------------------------------ a timeline under successful inserts
\* the caller goes on after an insert that returned false (occupation.rs
\* 46-50 return at the first insert that returns true)
NextInsert ==
    /\ pc = "returned"
    /\ called.name = "insert"
    /\ result = "false"
    /\ pc' = "ready"
    /\ previous' = timeline
    /\ called' = [name |-> "new", job |-> Job_dummy]
    /\ job' = Job_dummy
    /\ result' = "new"
    /\ found' = NoInterruption
    /\ UNCHANGED <<timeline, problem, original, permutation, build,
                   tree, output, pushed,
                   occupation, printed,
                   iterator, taken,
                   load_test,
                   interval_test,
                   simulator,
                   queue>>

NextInserts == Insert \/ FindInterruption \/ NextInsert

SpecInserts == InitTimeline /\ [][NextInserts]_vars

\* ------------------------------------------------- the bin-packing oracle
InitPack ==
    /\ pc = "ready"
    /\ \E num_processors \in 1..MaxProcessors, bin_size \in 0..MaxBinSize :
         \E jobs \in SeqsUpTo(1..MaxSize, MaxSizes) :
            called = [num_processors |-> num_processors, bin_size |-> bin_size,
                      jobs |-> jobs]
    /\ result = NoValue
    /\ problem = NoValue
    /\ original = NoValue
    /\ previous = NoValue
    /\ timeline = NoValue
    /\ permutation = NoValue
    /\ job = NoValue
    /\ found = NoValue
    /\ build = NoValue
    /\ tree = NoValue
    /\ output = NoValue
    /\ pushed = NoValue
    /\ occupation = NoValue
    /\ printed = NoValue
    /\ iterator = NoValue
    /\ taken = NoValue
    /\ load_test = NoValue
    /\ interval_test = NoValue
    /\ simulator = NoValue
    /\ queue = NoValue

\* is_certainly_unpackable(num_processors, bin_size, &mut jobs)
Pack ==
    /\ pc = "ready"
    /\ result' = IF is_certainly_unpackable(called.num_processors,
                        called.bin_size, called.jobs)
                 THEN "true" ELSE "false"
    /\ pc' = "returned"
    /\ UNCHANGED <<called, problem, original, previous, timeline, permutation,
                   job, found, build,
                   tree, output, pushed,
                   occupation, printed,
                   iterator, taken,
                   load_test,
                   interval_test,
                   simulator,
                   queue>>

NextPack == Pack

SpecPack == InitPack /\ [][NextPack]_vars

\* the Vecs of k sizes of at most top in descending order, one per multiset
\* (the function reads the sizes in order only after jobs.sort())
RECURSIVE Descending(_, _)
Descending(k, top) ==
    IF k = 0 THEN {<<>>}
    ELSE UNION {{<<v>> \o s : s \in Descending(k - 1, v)} : v \in 1..top}

\* calls with more processors, larger bins and more sizes
InitPackLarge ==
    /\ pc = "ready"
    /\ \E num_processors \in 1..MaxManyProcessors, bin_size \in 0..MaxLargeBinSize :
         \E k \in 0..MaxManySizes : \E jobs \in Descending(k, MaxLargeSize) :
            called = [num_processors |-> num_processors, bin_size |-> bin_size,
                      jobs |-> jobs]
    /\ result = NoValue
    /\ problem = NoValue
    /\ original = NoValue
    /\ previous = NoValue
    /\ timeline = NoValue
    /\ permutation = NoValue
    /\ job = NoValue
    /\ found = NoValue
    /\ build = NoValue
    /\ tree = NoValue
    /\ output = NoValue
    /\ pushed = NoValue
    /\ occupation = NoValue
    /\ printed = NoValue
    /\ iterator = NoValue
    /\ taken = NoValue
    /\ load_test = NoValue
    /\ interval_test = NoValue
    /\ simulator = NoValue
    /\ queue = NoValue

SpecPackLarge == InitPackLarge /\ [][NextPack]_vars

\* ----------------------------------------------------- the interval tree
\* the intervals [start, end) of the model, the empty ones included
TreeIntervals(index) ==
    UNION {{JobInterval(index, start, end) : end \in start..MaxTreeTime} :
              start \in 0..MaxTreeTime}

\* called holds the threshold in the place of the 50 of line 43, the last
\* query and the number of queries; previous holds the output before it
InitTree ==
    /\ pc = "new"
    /\ tree = IntervalTree_new
    /\ output = <<>>
    /\ pushed = <<>>
    /\ previous = <<>>
    /\ \E threshold \in 1..MaxThreshold :
          called = [threshold |-> threshold, interval |-> JobInterval(0, 0, 0),
                    queries |-> 0]
    /\ result = NoValue
    /\ problem = NoValue
    /\ original = NoValue
    /\ timeline = NoValue
    /\ permutation = NoValue
    /\ job = NoValue
    /\ found = NoValue
    /\ build = NoValue
    /\ occupation = NoValue
    /\ printed = NoValue
    /\ iterator = NoValue
    /\ taken = NoValue
    /\ load_test = NoValue
    /\ interval_test = NoValue
    /\ simulator = NoValue
    /\ queue = NoValue

\* interval_tree.insert(JobInterval { .. }) (interval.rs 29-35)
InsertInterval ==
    /\ pc = "new"
    /\ Len(pushed) < MaxIntervals
    /\ \E interval \in TreeIntervals(Len(pushed)) :
          /\ tree' = TreeInsert(tree, interval)
          /\ pushed' = Append(pushed, interval)
    /\ UNCHANGED <<pc, output, previous, called, result, problem, original,
                   timeline, permutation, job, found, build,
                   occupation, printed,
                   iterator, taken,
                   load_test,
                   interval_test,
                   simulator,
                   queue>>

\* interval_tree.split() (interval.rs 36)
Split ==
    /\ pc = "new"
    /\ tree' = split(tree, called.threshold).tree
    /\ result' = split(tree, called.threshold).result
    /\ pc' = IF split(tree, called.threshold).result = "returned"
             THEN "split" ELSE "overflow"
    /\ UNCHANGED <<output, pushed, previous, called, problem, original,
                   timeline, permutation, job, found, build,
                   occupation, printed,
                   iterator, taken,
                   load_test,
                   interval_test,
                   simulator,
                   queue>>

\* interval_tree.query(JobInterval { .. }, &mut output) (interval.rs 59-63)
Query ==
    /\ pc \in {"split", "queried"}
    /\ called.queries < MaxQueries
    /\ \E interval \in TreeIntervals(Len(pushed)) :
          /\ output' = query(tree, interval, output)
          /\ called' = [called EXCEPT !.interval = interval, !.queries = @ + 1]
    /\ previous' = output
    /\ pc' = "queried"
    /\ UNCHANGED <<tree, pushed, result, problem, original, timeline,
                   permutation, job, found, build,
                   occupation, printed,
                   iterator, taken,
                   load_test,
                   interval_test,
                   simulator,
                   queue>>

NextTree == InsertInterval \/ Split \/ Query

SpecTree == InitTree /\ [][NextTree]_vars

\* ------------------------------------------------------ the pipeline of main
\* the Vecs of n jobs parse_jobs builds that fit their own window
MainJobs(n, execution_times, deadlines) ==
    {[i \in 1..n |-> release_to_deadline(i - 1, in[i][1], in[i][2], in[i][3])] :
        in \in [1..n -> {t \in (0..MaxRelease) \X execution_times \X deadlines :
                            t[1] + t[2] <= t[3]}]}

\* the problems of n jobs parse_problem hands to main without a constraints
\* file
UnconstrainedProblems(n) ==
    {[jobs |-> jobs, constraints |-> <<>>, num_cores |-> num_cores] :
        jobs \in MainJobs(n, 1..MaxMainExecutionTime, 1..MaxMainDeadline),
        num_cores \in 1..MaxCores}

\* and those with a constraints file
ConstrainedProblems(n) ==
    {[jobs |-> jobs, constraints |-> constraints, num_cores |-> num_cores] :
        jobs \in MainJobs(n, 1..MaxExecutionTime, 1..MaxConstrainedDeadline),
        constraints \in SeqsUpTo({Constraint(b, a, d, t) :
                                     b \in 0..(n - 1), a \in 0..(n - 1),
                                     d \in 0..MaxDelay, t \in ConstraintType},
                                 MaxMainConstraints),
        num_cores \in 1..MaxCores}

InitMain ==
    /\ pc = "parsed"
    /\ problem \in UNION {UnconstrainedProblems(n) : n \in 0..MaxJobs}
                    \cup UNION {ConstrainedProblems(n) : n \in 1..MaxJobs}
    /\ original = problem
    /\ build \in {"checked", "wrapping"}
    /\ permutation = NoValue
    /\ result = NoValue
    /\ occupation = NoValue
    /\ printed = NoValue
    /\ previous = NoValue
    /\ timeline = NoValue
    /\ called = NoValue
    /\ job = NoValue
    /\ found = NoValue
    /\ tree = NoValue
    /\ output = NoValue
    /\ pushed = NoValue
    /\ iterator = NoValue
    /\ taken = NoValue
    /\ load_test = NoValue
    /\ interval_test = NoValue
    /\ simulator = NoValue
    /\ queue = NoValue

\* a driver that goes on to the passes whatever possible returned (not the
\* program's)
MainPossibleGoesOn ==
    /\ pc = "parsed"
    /\ problem' = possible(problem).problem
    /\ permutation' = possible(problem).permutation
    /\ result' = possible(problem).returned
    /\ pc' = IF possible(problem).returned = "panic" THEN "panic" ELSE "permuted"
    /\ printed' = printed
    /\ UNCHANGED <<original, occupation, previous, timeline, called, job, found,
                   build, tree, output, pushed,
                   iterator, taken,
                   load_test,
                   interval_test,
                   simulator,
                   queue>>

\* main.rs 25-26 and 36-38
MainPossible ==
    /\ pc = "parsed"
    /\ LET out == possible(problem)
       IN /\ problem' = out.problem
          /\ permutation' = out.permutation
          /\ result' = out.returned
          /\ pc' = IF out.returned = "panic" THEN "panic"
                   ELSE IF out.returned = "None" THEN "printed" ELSE "permuted"
          /\ printed' = IF out.returned = "None"
                        THEN "This problem is cyclic! INFEASIBLE" ELSE printed
    /\ UNCHANGED <<original, occupation, previous, timeline, called, job, found,
                   build, tree, output, pushed,
                   iterator, taken,
                   load_test,
                   interval_test,
                   simulator,
                   queue>>

\* main.rs 27
MainConstraints ==
    /\ pc = "permuted"
    /\ LET out == strengthen_bounds_using_constraints(problem)
       IN /\ problem' = out.problem
          /\ result' = out.result
          /\ pc' = IF out.result = "panic" THEN "panic" ELSE "constrained"
    /\ UNCHANGED <<original, permutation, occupation, printed, previous, timeline,
                   called, job, found, build, tree, output, pushed,
                   iterator, taken,
                   load_test,
                   interval_test,
                   simulator,
                   queue>>

\* main.rs 28: the debug_assert! runs the pass once more in a build with
\* debug assertions and fails when the pass reports a change; a release build
\* does not evaluate it
MainConstraintsAgain ==
    /\ pc = "constrained"
    /\ IF build = "checked"
       THEN LET out == strengthen_bounds_using_constraints(problem)
            IN /\ problem' = out.problem
               /\ result' = out.result
               /\ pc' = IF out.result = "Nothing" THEN "asserted" ELSE "panic"
       ELSE /\ pc' = "asserted"
            /\ UNCHANGED <<problem, result>>
    /\ UNCHANGED <<original, permutation, occupation, printed, previous, timeline,
                   called, job, found, build, tree, output, pushed,
                   iterator, taken,
                   load_test,
                   interval_test,
                   simulator,
                   queue>>

\* main.rs 29: the value returned is dropped
MainOccupation ==
    /\ pc = "asserted"
    /\ LET out == strengthen_bounds_using_core_occupation(problem, build = "checked")
       IN /\ problem' = out.problem
          /\ occupation' = out.result
          /\ pc' = IF out.result = "panic" THEN "panic"
                   ELSE IF out.result = "loops" THEN "looping" ELSE "occupied"
    /\ UNCHANGED <<original, permutation, result, printed, previous, timeline,
                   called, job, found, build, tree, output, pushed,
                   iterator, taken,
                   load_test,
                   interval_test,
                   simulator,
                   queue>>

\* main.rs 30
MainTransformBack ==
    /\ pc = "occupied"
    /\ problem' = transform_back(permutation, problem)
    /\ pc' = "restored"
    /\ UNCHANGED <<original, permutation, result, occupation, printed, previous,
                   timeline, called, job, found, build, tree, output, pushed,
                   iterator, taken,
                   load_test,
                   interval_test,
                   simulator,
                   queue>>

\* main.rs 31, problem.is_certainly_infeasible()
MainSelfInfeasible ==
    /\ pc = "restored"
    /\ result' = IF problem_is_certainly_infeasible(problem) THEN "true" ELSE "false"
    /\ pc' = IF problem_is_certainly_infeasible(problem) THEN "printed" ELSE "load"
    /\ printed' = IF problem_is_certainly_infeasible(problem) THEN "INFEASIBLE" ELSE printed
    /\ UNCHANGED <<problem, original, permutation, occupation, previous, timeline,
                   called, job, found, build, tree, output, pushed,
                   iterator, taken,
                   load_test,
                   interval_test,
                   simulator,
                   queue>>

\* the orders in which a HashSet may hand out the times of a sorted Vec
TimeOrders(times) ==
    {[i \in 1..Len(times) |-> times[f[i]]] :
        f \in {g \in [1..Len(times) -> 1..Len(times)] :
                  \A a, b \in 1..Len(times) : g[a] = g[b] => a = b}}

\* the load test of a build that leaves the times of interest in the order
\* of the HashSet
MainLoadTestUnsorted ==
    /\ pc = "load"
    /\ \E times \in TimeOrders(TimesOfInterest(problem.jobs)) :
         LET unsorted == [LoadTest_new(problem) EXCEPT !.times_of_interest = times]
             out == IF times = <<>> THEN "panic"
                    ELSE IF LoadLoop(LoadTest_next(unsorted, problem), problem)
                                = "CertainlyInfeasible"
                    THEN "true" ELSE "false"
         IN /\ result' = out
            /\ pc' = IF out = "true" THEN "printed"
                     ELSE IF out = "false" THEN "interval" ELSE "panic"
            /\ printed' = IF out = "true" THEN "INFEASIBLE" ELSE printed
    /\ UNCHANGED <<problem, original, permutation, occupation, previous, timeline,
                   called, job, found, build, tree, output, pushed,
                   iterator, taken,
                   load_test,
                   interval_test,
                   simulator,
                   queue>>

\* main.rs 31, run_feasibility_load_test(&problem)
MainLoadTest ==
    /\ pc = "load"
    /\ LET out == run_feasibility_load_test(problem)
       IN /\ result' = out
          /\ pc' = IF out = "true" THEN "printed"
                   ELSE IF out = "false" THEN "interval" ELSE "panic"
          /\ printed' = IF out = "true" THEN "INFEASIBLE" ELSE printed
    /\ UNCHANGED <<problem, original, permutation, occupation, previous, timeline,
                   called, job, found, build, tree, output, pushed,
                   iterator, taken,
                   load_test,
                   interval_test,
                   simulator,
                   queue>>

\* main.rs 31-35, run_feasibility_interval_test(&problem)
MainIntervalTest ==
    /\ pc = "interval"
    /\ LET out == run_feasibility_interval_test(problem)
       IN /\ result' = out
          /\ pc' = IF out \in {"true", "false"} THEN "printed" ELSE "panic"
          /\ printed' = IF out = "true" THEN "INFEASIBLE"
                        ELSE IF out = "false"
                        THEN "This problem may or may not be feasible."
                        ELSE printed
    /\ UNCHANGED <<problem, original, permutation, occupation, previous, timeline,
                   called, job, found, build, tree, output, pushed,
                   iterator, taken,
                   load_test,
                   interval_test,
                   simulator,
                   queue>>

NextMain ==
    \/ MainPossible
    \/ MainConstraints
    \/ MainConstraintsAgain
    \/ MainOccupation
    \/ MainTransformBack
    \/ MainSelfInfeasible
    \/ MainLoadTest
    \/ MainIntervalTest

SpecMain == InitMain /\ [][NextMain]_vars

\* ------------------------------------------------- the sorted-job iterator
\* the Vecs of jobs handed to SortedJobIterator::new, the key of a job being
\* its earliest_start (load.rs 45)
IteratorJobs ==
    UNION {{[i \in 1..n |-> Job(i - 1, 1, keys[i], keys[i])] :
               keys \in [1..n -> 0..MaxKey]} : n \in 0..MaxJobs}

InitIterator ==
    /\ pc = "new"
    /\ \E jobs \in IteratorJobs :
          /\ problem = [jobs |-> jobs, constraints |-> <<>>, num_cores |-> 1]
          /\ iterator = SortedJobIterator_new(jobs,
                            [i \in 1..Len(jobs) |-> jobs[i].earliest_start])
    /\ original = problem
    /\ previous = iterator
    /\ taken = <<>>
    /\ called = [condition |-> {}, calls |-> 0, before |-> NoValue]
    /\ result = NoValue
    /\ timeline = NoValue
    /\ permutation = NoValue
    /\ job = NoValue
    /\ found = NoValue
    /\ build = NoValue
    /\ tree = NoValue
    /\ output = NoValue
    /\ pushed = NoValue
    /\ occupation = NoValue
    /\ printed = NoValue
    /\ load_test = NoValue
    /\ interval_test = NoValue
    /\ simulator = NoValue
    /\ queue = NoValue

\* iterator.next(condition)
IteratorNext ==
    /\ called.calls < MaxCalls
    /\ \E condition \in SUBSET (0..MaxKey) :
          /\ iterator' = SortedJobIterator_next(iterator, condition).self
          /\ result' = SortedJobIterator_next(iterator, condition).returned
          /\ taken' = taken \o SortedJobIterator_next(iterator, condition).returned
          /\ called' = [condition |-> condition, calls |-> called.calls + 1,
                        before |-> result]
    /\ previous' = iterator
    /\ pc' = "returned"
    /\ UNCHANGED <<problem, original, timeline, permutation, job, found, build,
                   tree, output, pushed, occupation, printed,
                   load_test,
                   interval_test,
                   simulator,
                   queue>>

NextIterator == IteratorNext

SpecIterator == InitIterator /\ [][NextIterator]_vars

\* ------------------------------------------------------------ the load test
\* the problem of test_tight_infeasible_case_arriving_at0 (load.rs 292-300)
tight_infeasible_case_arriving_at0 ==
    [jobs |-> <<release_to_deadline(0, 0, 5, 16), release_to_deadline(1, 0, 3, 10),
                release_to_deadline(2, 0, 8, 10)>>,
     constraints |-> <<>>, num_cores |-> 1]

\* the problem of test_tight_feasible_case_arriving_at0 (load.rs 251-259)
tight_feasible_case_arriving_at0 ==
    [jobs |-> <<release_to_deadline(0, 0, 5, 16), release_to_deadline(1, 0, 3, 10),
                release_to_deadline(2, 0, 8, 11)>>,
     constraints |-> <<>>, num_cores |-> 1]

\* the problem of test_feasibility_load_with_1_job_variant1 (load.rs 204-208)
feasibility_load_with_1_job_variant1 ==
    [jobs |-> <<release_to_deadline(0, 0, 1000, 1000)>>,
     constraints |-> <<>>, num_cores |-> 1]

\* the problem of test_tight_feasible_with_2_cores_and_more_jobs (load.rs
\* 386-402)
tight_feasible_with_2_cores_and_more_jobs ==
    [jobs |-> <<release_to_deadline(0, 2, 5, 10), release_to_deadline(1, 0, 13, 30),
                release_to_deadline(2, 0, 3, 25), release_to_deadline(3, 10, 2, 25),
                release_to_deadline(4, 0, 7, 20), release_to_deadline(5, 2, 5, 10),
                release_to_deadline(6, 0, 8, 25), release_to_deadline(7, 0, 3, 30),
                release_to_deadline(8, 10, 8, 30), release_to_deadline(9, 0, 6, 20)>>,
     constraints |-> <<>>, num_cores |-> 2]

\* the problems the load test is run on: those of the tests and the small
\* problems without constraints whose jobs fit their own window
LoadProblems ==
    {tight_infeasible_case_arriving_at0, tight_feasible_case_arriving_at0,
     feasibility_load_with_1_job_variant1, tight_feasible_with_2_cores_and_more_jobs}
    \cup UNION {{[jobs |-> jobs, constraints |-> <<>>, num_cores |-> num_cores] :
                    jobs \in MainJobs(n, 1..MaxExecutionTime, 1..MaxLoadDeadline),
                    num_cores \in 1..MaxCores} :
                n \in 0..MaxJobs}

\* let mut load_test = LoadTest::new(&problem)
InitLoad ==
    /\ pc = "new"
    /\ problem \in LoadProblems
    /\ original = problem
    /\ load_test = LoadTest_new(problem)
    /\ previous = load_test
    /\ result = NoValue
    /\ timeline = NoValue
    /\ permutation = NoValue
    /\ called = NoValue
    /\ job = NoValue
    /\ found = NoValue
    /\ build = NoValue
    /\ tree = NoValue
    /\ output = NoValue
    /\ pushed = NoValue
    /\ occupation = NoValue
    /\ printed = NoValue
    /\ iterator = NoValue
    /\ taken = NoValue
    /\ interval_test = NoValue
    /\ simulator = NoValue
    /\ queue = NoValue

\* load_test.next(), as long as the loop of run_feasibility_load_test calls it
LoadNext ==
    /\ pc \in {"new", "Running"}
    /\ IF load_test.time_index >= Len(load_test.times_of_interest)
       THEN /\ pc' = "panic"
            /\ result' = "panic"
            /\ UNCHANGED load_test
       ELSE /\ load_test' = LoadTest_next(load_test, problem)
            /\ result' = LoadResult(LoadTest_next(load_test, problem))
            /\ pc' = LoadResult(LoadTest_next(load_test, problem))
    /\ previous' = load_test
    /\ UNCHANGED <<problem, original, timeline, permutation, called, job, found,
                   build, tree, output, pushed, occupation, printed,
                   iterator, taken,
                   interval_test,
                   simulator,
                   queue>>

NextLoad == LoadNext

SpecLoad == InitLoad /\ [][NextLoad]_vars

\* -------------------------------------------------------- the interval test
\* the problem of feasibility_interval_regression_suboptimal (load.rs 640-649)
feasibility_interval_regression_suboptimal ==
    [jobs |-> <<release_to_deadline(0, 23, 68, 100), release_to_deadline(1, 10, 78, 100),
                release_to_deadline(2, 0, 18, 20), release_to_deadline(3, 0, 34, 38)>>,
     constraints |-> <<>>, num_cores |-> 2]

\* the problems the interval test is run on
IntervalProblems ==
    {feasibility_interval_regression_suboptimal}
    \cup UNION {{[jobs |-> jobs, constraints |-> <<>>, num_cores |-> num_cores] :
                    jobs \in MainJobs(n, 1..MaxExecutionTime, 1..MaxLoadDeadline),
                    num_cores \in 1..MaxCores} :
                n \in 0..MaxJobs}

InitInterval ==
    /\ pc = "parsed"
    /\ problem \in IntervalProblems
    /\ original = problem
    /\ build \in {"checked", "wrapping"}
    /\ interval_test = NoValue
    /\ result = NoValue
    /\ occupation = NoValue
    /\ previous = NoValue
    /\ timeline = NoValue
    /\ permutation = NoValue
    /\ called = NoValue
    /\ job = NoValue
    /\ found = NoValue
    /\ tree = NoValue
    /\ output = NoValue
    /\ pushed = NoValue
    /\ printed = NoValue
    /\ iterator = NoValue
    /\ taken = NoValue
    /\ load_test = NoValue
    /\ simulator = NoValue
    /\ queue = NoValue

\* run_feasibility_load_test(&problem) on the problem as it is parsed
\* (load.rs 651)
IntervalLoadTest ==
    /\ pc = "parsed"
    /\ result = NoValue
    /\ result' = run_feasibility_load_test(problem)
    /\ UNCHANGED <<pc, problem, original, build, interval_test, occupation,
                   previous, timeline, permutation, called, job, found, tree,
                   output, pushed, printed, iterator, taken, load_test,
                   simulator,
                   queue>>

\* strengthen_bounds_using_core_occupation on a copy of that problem
\* (load.rs 653)
IntervalOccupation ==
    /\ pc = "parsed"
    /\ occupation = NoValue
    /\ occupation' =
          strengthen_bounds_using_core_occupation(problem, build = "checked").result
    /\ UNCHANGED <<pc, problem, original, build, interval_test, result,
                   previous, timeline, permutation, called, job, found, tree,
                   output, pushed, printed, iterator, taken, load_test,
                   simulator,
                   queue>>

\* let mut test = IntervalTest::new(problem) (interval.rs 100)
IntervalNew ==
    /\ pc = "parsed"
    /\ IF split(IntervalTestInserted(problem.jobs), LeafThreshold).result = "returned"
       THEN /\ interval_test' = IntervalTest_new(problem)
            /\ pc' = "Running"
       ELSE /\ pc' = split(IntervalTestInserted(problem.jobs), LeafThreshold).result
            /\ UNCHANGED interval_test
    /\ UNCHANGED <<problem, original, build, result, occupation,
                   previous, timeline, permutation, called, job, found, tree,
                   output, pushed, printed, iterator, taken, load_test,
                   simulator,
                   queue>>

\* test.next(), as long as the loop of run_feasibility_interval_test calls it
IntervalNext ==
    /\ pc = "Running"
    /\ IF interval_test.next_job_index >= Len(problem.jobs)
       THEN /\ pc' = "panic"
            /\ UNCHANGED interval_test
       ELSE /\ interval_test' = IntervalTest_next(interval_test, problem)
            /\ pc' = IntervalResult(IntervalTest_next(interval_test, problem), problem)
    /\ UNCHANGED <<problem, original, build, result, occupation,
                   previous, timeline, permutation, called, job, found, tree,
                   output, pushed, printed, iterator, taken, load_test,
                   simulator,
                   queue>>

NextInterval == IntervalLoadTest \/ IntervalOccupation \/ IntervalNew \/ IntervalNext

SpecInterval == InitInterval /\ [][NextInterval]_vars

\* ------------------------------------- the strengthening by core occupation
\* the jobs whose window [release, deadline) holds their execution time
SchedulableJobs == {j \in TimelineJobs : ~is_certainly_infeasible(j)}

\* the Vecs of n such jobs, job i with index i
OccupationJobs(n) ==
    {[i \in 1..n |-> [in[i] EXCEPT !.index = i - 1]] : in \in [1..n -> SchedulableJobs]}

InitOccupation ==
    /\ pc = "parsed"
    /\ \E n \in 1..MaxJobs :
         \E jobs \in OccupationJobs(n) :
           \E num_cores \in 1..MaxCores :
              problem = [jobs |-> jobs, constraints |-> <<>>, num_cores |-> num_cores]
    /\ build \in {"checked", "wrapping"}
    /\ original = problem
    /\ previous = problem
    /\ result = NoValue
    /\ timeline = NoValue
    /\ permutation = NoValue
    /\ called = NoValue
    /\ job = NoValue
    /\ found = NoValue
    /\ tree = NoValue
    /\ output = NoValue
    /\ pushed = NoValue
    /\ occupation = NoValue
    /\ printed = NoValue
    /\ iterator = NoValue
    /\ taken = NoValue
    /\ load_test = NoValue
    /\ interval_test = NoValue
    /\ simulator = NoValue
    /\ queue = NoValue

\* strengthen_bounds_using_core_occupation(&mut problem)
StrengthenOccupation ==
    /\ pc = "parsed"
    /\ LET out == strengthen_bounds_using_core_occupation(problem, build = "checked")
       IN /\ problem' = out.problem
          /\ result' = out.result
          /\ timeline' = out.timeline
          /\ pc' = IF out.result = "panic" THEN "panic"
                   ELSE IF out.result = "loops" THEN "looping" ELSE "strengthened"
    /\ previous' = problem
    /\ UNCHANGED <<original, permutation, called, job, found, build,
                   tree, output, pushed,
                   occupation, printed,
                   iterator, taken,
                   load_test,
                   interval_test,
                   simulator,
                   queue>>

NextOccupation == StrengthenOccupation

SpecOccupation == InitOccupation /\ [][NextOccupation]_vars

\* ------------------------------------------------------------ the simulator
\* the problem of test_with_mixed_constraints_and_two_cores, behind its
\* strengthen_bounds_using_constraints call (simulator/mod.rs 254-268)
test_with_mixed_constraints_and_two_cores ==
    strengthen_bounds_using_constraints(
        [jobs |-> <<release_to_deadline(0, 0, 20, 20), release_to_deadline(1, 0, 30, 32),
                    release_to_deadline(2, 0, 30, 100)>>,
         constraints |-> <<Constraint(0, 1, 2, "StartToStart"),
                           Constraint(0, 2, 10, "FinishToStart")>>,
         num_cores |-> 2]).problem

\* the small problems of n jobs a simulator is made for: the jobs in an order
\* in which every constraint points forward
SmallProblems(n) ==
    {[jobs |-> jobs, constraints |-> constraints, num_cores |-> num_cores] :
        jobs \in ParsedJobs(n, {MaxSimulatorDeadline}),
        constraints \in {c \in ParsedConstraints(n) : \A i \in 1..Len(c) :
                                                     c[i].before < c[i].after},
        num_cores \in 1..MaxCores}

\* let mut simulator = Simulator::new(&problem); called.log keeps every
\* RunningJob schedule has pushed, in the order of the calls
InitSimulator ==
    /\ pc = "ready"
    /\ problem \in {test_with_mixed_constraints_and_two_cores}
                    \cup UNION {SmallProblems(n) : n \in 1..MaxJobs}
    /\ original = problem
    /\ simulator = Simulator_new(problem)
    /\ called = [log |-> <<>>]
    /\ permutation = NoValue
    /\ result = NoValue
    /\ previous = NoValue
    /\ timeline = NoValue
    /\ job = NoValue
    /\ found = NoValue
    /\ build = NoValue
    /\ tree = NoValue
    /\ output = NoValue
    /\ pushed = NoValue
    /\ occupation = NoValue
    /\ printed = NoValue
    /\ iterator = NoValue
    /\ taken = NoValue
    /\ load_test = NoValue
    /\ interval_test = NoValue
    /\ queue = NoValue

\* the jobs schedule has been called for
Dispatched == {called.log[k].job : k \in 1..Len(called.log)}

\* simulator.schedule(problem.jobs[i]) for a job not yet dispatched; the call
\* panics when a predecessor has not been dispatched
SimulatorSchedule ==
    /\ pc = "ready"
    /\ \E i \in 1..Len(problem.jobs) :
         /\ At(problem.jobs, i - 1).index \notin Dispatched
         /\ LET out == Simulator_schedule(simulator, At(problem.jobs, i - 1))
            IN /\ simulator' = out.self
               /\ pc' = IF out.panic THEN "panic" ELSE "ready"
               /\ called' = IF out.panic THEN called
                             ELSE [log |-> Append(called.log,
                                       out.self.running_jobs[Len(out.self.running_jobs)])]
    /\ UNCHANGED <<problem, original, permutation, result, previous, timeline,
                   job, found, build, tree, output, pushed, occupation, printed,
                   iterator, taken, load_test, interval_test,
                   queue>>

NextSimulator == SimulatorSchedule

SpecSimulator == InitSimulator /\ [][NextSimulator]_vars

\* ------------------------------------------------- predictions and schedule
\* the problem of test_with_finish_to_start_constraints, behind its
\* strengthen_bounds_using_constraints call (simulator/mod.rs 221-233)
test_with_finish_to_start_constraints ==
    strengthen_bounds_using_constraints(
        [jobs |-> <<release_to_deadline(0, 0, 20, 100), release_to_deadline(1, 0, 30, 52),
                    release_to_deadline(2, 0, 30, 100)>>,
         constraints |-> <<Constraint(0, 1, 2, "FinishToStart")>>,
         num_cores |-> 1]).problem

\* the problem of test_predict_start_time_with_one_core (simulator/mod.rs
\* 288-295)
test_predict_start_time_with_one_core ==
    [jobs |-> <<release_to_deadline(0, 0, 20, 50), release_to_deadline(1, 10, 30, 50)>>,
     constraints |-> <<>>,
     num_cores |-> 1]

\* a prediction: the job, what the two methods returned and the number of
\* schedule calls before it (-1 when nothing was predicted yet)
Prediction(index, start, next, calls) ==
    [job |-> index, start |-> start, next |-> next, calls |-> calls]

\* previous holds the last prediction
InitPredict ==
    /\ pc = "ready"
    /\ problem \in {test_with_finish_to_start_constraints,
                     test_predict_start_time_with_one_core,
                     test_with_mixed_constraints_and_two_cores}
                    \cup UNION {SmallProblems(n) : n \in 1..MaxPredictJobs}
    /\ original = problem
    /\ simulator = Simulator_new(problem)
    /\ called = [log |-> <<>>]
    /\ previous = Prediction(0, 0, 0, -1)
    /\ permutation = NoValue
    /\ result = NoValue
    /\ timeline = NoValue
    /\ job = NoValue
    /\ found = NoValue
    /\ build = NoValue
    /\ tree = NoValue
    /\ output = NoValue
    /\ pushed = NoValue
    /\ occupation = NoValue
    /\ printed = NoValue
    /\ iterator = NoValue
    /\ taken = NoValue
    /\ load_test = NoValue
    /\ interval_test = NoValue
    /\ queue = NoValue

\* simulator.predict_start_time(problem.jobs[i]) and
\* simulator.predict_next_start_time(problem.jobs[i]) for a job not yet
\* dispatched: both take &self; expect() panics when a predecessor has not
\* been dispatched
SimulatorPredict ==
    /\ pc = "ready"
    /\ \E i \in 1..Len(problem.jobs) :
         /\ At(problem.jobs, i - 1).index \notin Dispatched
         /\ pc' = IF predict_start_time(simulator, At(problem.jobs, i - 1)).panic
                  THEN "panic" ELSE "ready"
         /\ previous' =
               IF predict_start_time(simulator, At(problem.jobs, i - 1)).panic
               THEN previous
               ELSE Prediction(i - 1,
                       predict_start_time(simulator, At(problem.jobs, i - 1)).time,
                       predict_next_start_time(simulator, At(problem.jobs, i - 1)).time,
                       Len(called.log))
    /\ UNCHANGED <<simulator, called, problem, original, permutation, result,
                   timeline, job, found, build, tree, output, pushed, occupation,
                   printed, iterator, taken, load_test, interval_test,
                   queue>>

NextPredict == SimulatorPredict \/ SimulatorSchedule

SpecPredict == InitPredict /\ [][NextPredict]_vars

\* ---------------------- the strengthening by core occupation, call by call
\* periodic_infeasible_problem() with the execution time of job 0 (occupation.rs
\* 806-819, 828, 833)
periodic_infeasible_problem(execution_time) ==
    [jobs |-> <<release_to_deadline(0, 0, execution_time, 45),
                release_to_deadline(1, 10, 1, 11), release_to_deadline(2, 20, 1, 21),
                release_to_deadline(3, 30, 1, 31), release_to_deadline(4, 40, 1, 41)>>,
     constraints |-> <<>>, num_cores |-> 1]

\* the Vecs of n jobs that are not certainly infeasible, job i with index i
StepJobs(n) ==
    {[i \in 1..n |-> [in[i] EXCEPT !.index = i - 1]] :
        in \in [1..n -> {j \in SchedulableJobs :
                            get_latest_finish(j) <= MaxStepDeadline}]}

\* the problems of n such jobs without constraints
StepProblems(n) ==
    {[jobs |-> jobs, constraints |-> <<>>, num_cores |-> num_cores] :
        jobs \in StepJobs(n), num_cores \in 1..MaxCores}

\* the locals of the function at its entry: the job the next insert or refine
\* is for, the two flags and the passes begun; with them the calls of the
\* function, what the first call returned, and the job and the timeline the
\* last refine was handed
StepEntry(calls, first, tl) ==
    [index |-> 0, modified_interval |-> FALSE, modified_anything |-> FALSE,
     passes |-> 0, calls |-> calls, first |-> first, job |-> Job_dummy,
     timeline |-> tl]

\* let mut timeline = OccupationTimeline::new(problem.num_cores)
InitStep ==
    /\ pc = "inserting"
    /\ problem \in {periodic_infeasible_problem(execution_time) :
                        execution_time \in {9, 10, 11}}
                    \cup UNION {StepProblems(n) : n \in 1..MaxJobs}
    /\ build \in {"checked", "wrapping"}
    /\ original = problem
    /\ previous = problem
    /\ timeline = OccupationTimeline_new(problem.num_cores)
    /\ called = StepEntry(1, NoValue, timeline)
    /\ result = NoValue
    /\ occupation = NoValue
    /\ permutation = NoValue
    /\ job = NoValue
    /\ found = NoValue
    /\ tree = NoValue
    /\ output = NoValue
    /\ pushed = NoValue
    /\ printed = NoValue
    /\ iterator = NoValue
    /\ taken = NoValue
    /\ load_test = NoValue
    /\ interval_test = NoValue
    /\ simulator = NoValue
    /\ queue = NoValue

\* if timeline.insert(*job) { return Infeasible } (occupation.rs 46-50)
StepInsert ==
    /\ pc = "inserting"
    /\ LET out == insert(timeline, At(problem.jobs, called.index), build = "checked")
       IN /\ timeline' = out.timeline
          /\ result' = out.returned
          /\ pc' = IF out.returned = "panic" THEN "panic"
                   ELSE IF out.returned = "true" THEN "returned"
                   ELSE IF called.index + 1 < Len(problem.jobs) THEN "inserting"
                   ELSE "refining"
          /\ occupation' = IF out.returned = "true" THEN "Infeasible" ELSE occupation
          /\ called' = [called EXCEPT !.index = IF out.returned = "false"
                                                    /\ @ + 1 < Len(problem.jobs)
                                                 THEN @ + 1 ELSE 0]
    /\ UNCHANGED <<problem, original, previous, build, permutation, job, found,
                   tree, output, pushed, printed, iterator, taken, load_test,
                   interval_test,
                   simulator,
                   queue>>

\* let result = timeline.refine(job) and what follows it (occupation.rs 56-67)
StepRefine ==
    /\ pc = "refining"
    /\ called.index < Len(problem.jobs)
    /\ LET out == refine(timeline, At(problem.jobs, called.index), build = "checked")
       IN /\ timeline' = out.timeline
          /\ problem' = [problem EXCEPT !.jobs[called.index + 1] = out.job]
          /\ result' = out.returned
          /\ pc' = IF out.returned = "panic" THEN "panic"
                   ELSE IF out.returned = "loops" THEN "looping"
                   ELSE IF out.returned = "Infeasible" THEN "returned"
                   ELSE "refining"
          /\ occupation' = IF out.returned = "Infeasible" THEN "Infeasible"
                           ELSE occupation
          /\ called' = [called EXCEPT
                !.index = @ + 1,
                !.job = At(problem.jobs, called.index),
                !.timeline = timeline,
                !.modified_interval = @ \/ out.returned = "ModifiedJobAndIntervals",
                !.modified_anything =
                    @ \/ out.returned \in {"ModifiedJobAndIntervals", "ModifiedJob"}]
    /\ UNCHANGED <<original, previous, build, permutation, job, found,
                   tree, output, pushed, printed, iterator, taken, load_test,
                   interval_test,
                   simulator,
                   queue>>

\* the end of a pass over the jobs (occupation.rs 54-55, 69-78)
StepPassEnd ==
    /\ pc = "refining"
    /\ called.index >= Len(problem.jobs)
    /\ IF called.modified_interval
       THEN /\ called' = [called EXCEPT !.index = 0, !.modified_interval = FALSE,
                                        !.passes = @ + 1]
            /\ UNCHANGED <<pc, occupation>>
       ELSE /\ pc' = "returned"
            /\ occupation' = IF called.modified_anything THEN "Modified"
                             ELSE "Unchanged"
            /\ UNCHANGED called
    /\ UNCHANGED <<problem, original, previous, build, timeline, result,
                   permutation, job, found, tree, output, pushed, printed,
                   iterator, taken, load_test, interval_test,
                   simulator,
                   queue>>

\* the function is called once more on the problem it has strengthened
StepAgain ==
    /\ pc = "returned"
    /\ called.calls = 1
    /\ occupation \in {"Unchanged", "Modified"}
    /\ pc' = "inserting"
    /\ previous' = problem
    /\ timeline' = OccupationTimeline_new(problem.num_cores)
    /\ called' = StepEntry(2, occupation, timeline')
    /\ occupation' = NoValue
    /\ result' = NoValue
    /\ UNCHANGED <<problem, original, build, permutation, job, found,
                   tree, output, pushed, printed, iterator, taken, load_test,
                   interval_test,
                   simulator,
                   queue>>

NextStep == StepInsert \/ StepRefine \/ StepPassEnd \/ StepAgain

SpecStep == InitStep /\ [][NextStep]_vars

\* the precedence graph of a problem and its cycles
Edges(p) == {<<p.constraints[i].before, p.constraints[i].after>> :
                i \in 1..Len(p.constraints)}

RECURSIVE TransitiveClosure(_)
TransitiveClosure(R) ==
    LET R2 == R \cup {<<xy[1][1], xy[2][2]>> :
                         xy \in {e \in R \X R : e[1][2] = e[2][1]}}
    IN IF R2 = R THEN R ELSE TransitiveClosure(R2)

HasCycle(p) == \E e \in TransitiveClosure(Edges(p)) : e[1] = e[2]

\* what the passes may change of a job, apart from its position
JobData(j) == <<j.execution_time, j.earliest_start, j.latest_start>>

\* C1: possible followed by transform_back leaves the problem equal to the
\* original: every job and every constraint is back at its original
\* position with its original fields.
C1_RoundTripIdentity == pc = "restored" => problem = original

\* C2: whenever possible returns Some, every constraint c of the mutated
\* problem has c.before < c.after.
C2_PossibleOrder == pc = "permuted" => is_job_order_possible(problem)

\* C3: possible returns None if and only if the precedence graph has a
\* cycle (a self-loop included), it never fails its assertion, and when it
\* returns None the jobs and constraints are left unchanged.
C3_NoneIffCyclic ==
    pc # "parsed" =>
        /\ pc # "panic"
        /\ (pc = "cyclic") <=> HasCycle(original)
        /\ pc = "cyclic" => problem = original

C3_Witness ==
    /\ pc = "cyclic"
    /\ HasCycle(original)
    /\ \A e \in Edges(original) : e[1] # e[2]
    /\ problem = original

C3_WitnessSome == pc = "permuted" /\ Len(original.constraints) = MaxConstraints

\* C4: after possible succeeds jobs[i].index = i, the multiset of
\* (execution_time, earliest_start, latest_start) is unchanged, and each
\* rewritten constraint connects the new positions of the two jobs its
\* original connected, with the same delay and type.
C4_PermutedProblem ==
    pc = "permuted" =>
        /\ \A i \in 1..Len(problem.jobs) : problem.jobs[i].index = i - 1
        /\ Len(problem.jobs) = Len(original.jobs)
        /\ \A i \in 1..Len(original.jobs) :
              Cardinality({k \in 1..Len(problem.jobs) :
                              JobData(problem.jobs[k]) = JobData(original.jobs[i])})
            = Cardinality({k \in 1..Len(original.jobs) :
                              JobData(original.jobs[k]) = JobData(original.jobs[i])})
        /\ Len(problem.constraints) = Len(original.constraints)
        /\ \A k \in 1..Len(original.constraints) :
              LET old == original.constraints[k]
                  new == At(problem.constraints, permutation.constraints[k])
              IN /\ new.delay = old.delay
                 /\ new.constraint_type = old.constraint_type
                 /\ JobData(At(problem.jobs, new.before))
                        = JobData(At(original.jobs, old.before))
                 /\ JobData(At(problem.jobs, new.after))
                        = JobData(At(original.jobs, old.after))
                 /\ At(permutation.jobs, new.before) = old.before
                 /\ At(permutation.jobs, new.after) = old.after

\* the gap a constraint demands between the starts of its two jobs
Gap(p, c) == max_time_gap(c, At(p.jobs, c.before).execution_time)

ConstraintsHold(p) ==
    \A i \in 1..Len(p.constraints) :
        LET c == p.constraints[i]
            before == At(p.jobs, c.before)
            after == At(p.jobs, c.after)
        IN /\ after.earliest_start >= before.earliest_start + Gap(p, c)
           /\ before.latest_start <= after.latest_start - Gap(p, c)

BoundsChanged == problem.jobs # previous.jobs

\* C5: after strengthen_bounds_using_constraints returns Nothing or Modified
\* on an acyclic problem, every constraint c has after.earliest_start >=
\* before.earliest_start + gap and before.latest_start <= after.latest_start
\* - gap, with gap = delay (+ before.execution_time for FinishToStart).
C5_ConstraintsHoldAfterStrengthening ==
    (pc \in {"strengthened", "again"} /\ result \in {"Nothing", "Modified"})
        => ConstraintsHold(problem)

C5_Witness ==
    /\ pc = "strengthened"
    /\ result = "Modified"
    /\ ~is_job_order_possible(original)
    /\ Len(problem.constraints) = MaxConstraints
    /\ \E i \in 1..Len(problem.jobs) :
          /\ problem.jobs[i].earliest_start # original.jobs[i].earliest_start
          /\ problem.jobs[i].latest_start # original.jobs[i].latest_start

\* C6: one call reaches a fixed point: a second call on the problem just
\* strengthened returns Nothing and changes no earliest_start or
\* latest_start.
C6_SecondCallChangesNothing ==
    pc = "again" => (result = "Nothing" /\ problem = previous)

C6_Witness ==
    /\ pc = "again"
    /\ previous # original
    /\ result = "Nothing"
    /\ Len(problem.constraints) = MaxConstraints

\* C7 as stated: the call returns Modified iff some earliest_start or
\* latest_start differs from its value before the call, Nothing iff no bound
\* changed, and never Cyclic when every constraint has before < after.
C7_ResultFaithful ==
    pc \in {"strengthened", "again", "cyclic"} =>
        /\ (result = "Modified") <=> BoundsChanged
        /\ (result = "Nothing") <=> ~BoundsChanged
        /\ is_job_order_possible(previous) => result # "Cyclic"

\* C7 as amended: on an acyclic problem the call returns Modified iff some
\* bound differs from its value before the call and Nothing iff none does;
\* it never returns Cyclic when every constraint has before < after.
C7_ResultFaithfulWhenAcyclic ==
    pc \in {"strengthened", "again", "cyclic"} =>
        /\ ~HasCycle(previous) =>
              /\ (result = "Modified") <=> BoundsChanged
              /\ (result = "Nothing") <=> ~BoundsChanged
        /\ is_job_order_possible(previous) => result # "Cyclic"

C7_Witness ==
    /\ pc = "strengthened"
    /\ result = "Modified"
    /\ BoundsChanged
    /\ is_job_order_possible(previous)
    /\ Len(previous.constraints) = MaxConstraints

C7_WitnessCyclic == pc = "cyclic" /\ result = "Cyclic" /\ BoundsChanged

\* the busy-core count of a timeline at time t: that of the last step that
\* starts at or before t
CoresAt(tl, t) ==
    LET started == {i \in 1..Len(tl.intervals) : tl.intervals[i].start <= t}
    IN tl.intervals[CHOOSE i \in started : \A k \in started : k <= i].num_cores

Coalesced(tl) ==
    \A i \in 1..(Len(tl.intervals) - 1) :
        tl.intervals[i].num_cores # tl.intervals[i + 1].num_cores

WithinCores(tl) ==
    \A i \in 1..Len(tl.intervals) : tl.intervals[i].num_cores <= tl.max_num_cores

InsertCalled == pc \in {"returned", "panic"} /\ called.name = "insert"

\* C8: in every state reached by any sequence of insert and refine calls,
\* an insert that returns the infeasibility signal included, no two adjacent
\* step points have the same num_cores and every num_cores is at most
\* max_num_cores.
C8_TimelineCoalesced ==
    pc \in {"ready", "returned"} => (Coalesced(timeline) /\ WithinCores(timeline))

\* C9: an insert of a job with earliest_finish > latest_start that returns
\* false adds exactly 1 to the busy-core count at every time in
\* [latest_start, earliest_finish) and leaves every other time as it was; it
\* returns true iff some time of that interval already had max_num_cores.
C9_InsertAddsOne ==
    (InsertCalled /\ get_earliest_finish(called.job) > called.job.latest_start) =>
        /\ result = "false" =>
              \A t \in 0..(MaxTime + 1) :
                 CoresAt(timeline, t) = CoresAt(previous, t) +
                    (IF called.job.latest_start <= t
                        /\ t < get_earliest_finish(called.job) THEN 1 ELSE 0)
        /\ (result = "true") <=>
              \E t \in called.job.latest_start..(get_earliest_finish(called.job) - 1) :
                 CoresAt(previous, t) = previous.max_num_cores

C9_Witness ==
    /\ InsertCalled
    /\ result = "false"
    /\ get_earliest_finish(called.job) > called.job.latest_start + 1
    /\ Len(previous.intervals) >= 4
    /\ \E t \in called.job.latest_start..(get_earliest_finish(called.job) - 1) :
          CoresAt(previous, t) > 0
    /\ Len(timeline.intervals) < Len(previous.intervals)

C9_WitnessFull ==
    /\ InsertCalled
    /\ result = "true"
    /\ CoresAt(previous, called.job.latest_start) < previous.max_num_cores

\* C10: an insert of a job with earliest_finish <= latest_start returns
\* false and leaves the sequence of step points unchanged.
C10_InsertWithoutCertainInterval ==
    (InsertCalled /\ get_earliest_finish(called.job) <= called.job.latest_start) =>
        (result = "false" /\ timeline = previous)

C10_Witness ==
    /\ InsertCalled
    /\ get_earliest_finish(called.job) = called.job.latest_start
    /\ result = "false"
    /\ Len(timeline.intervals) >= 3
    /\ CoresAt(timeline, called.job.latest_start) > 0

\* the times of step i of a timeline: from its start up to the start of the
\* next step, the last step without end
StepIntersects(tl, i, lo, hi) ==
    /\ At(tl.intervals, i).start < hi
    /\ (i + 1 < Len(tl.intervals) => At(tl.intervals, i + 1).start > lo)
    /\ lo < hi

\* the steps at capacity that share a time with [lo, hi)
InterruptingSteps(tl, lo, hi) ==
    {i \in 0..(Len(tl.intervals) - 1) :
        /\ At(tl.intervals, i).num_cores = tl.max_num_cores
        /\ StepIntersects(tl, i, lo, hi)}

FindCalled == pc = "returned" /\ called.name = "find_interruption"

\* C11: for every timeline and every lo, hi, lo >= hi included,
\* find_interruption(lo, hi) returns Some(i) only for the smallest step i at
\* capacity that intersects [lo, hi), and None exactly when there is none.
C11_FindInterruptionFirst ==
    FindCalled =>
        LET steps == InterruptingSteps(timeline, found.start, found.bound)
        IN /\ found.some => (found.index \in steps
                              /\ \A k \in steps : found.index <= k)
           /\ ~found.some <=> steps = {}

\* the steps at capacity that start before hi and end after lo: for lo < hi
\* the same steps, for lo >= hi the step that holds lo when it starts before hi
StepsFromTo(tl, lo, hi) ==
    {i \in 0..(Len(tl.intervals) - 1) :
        /\ At(tl.intervals, i).num_cores = tl.max_num_cores
        /\ At(tl.intervals, i).start < hi
        /\ (i + 1 < Len(tl.intervals) => At(tl.intervals, i + 1).start > lo)}

\* C11 as the code has it: find_interruption(lo, hi) returns the smallest
\* step at capacity that starts before hi and ends after lo, and None exactly
\* when there is none; for lo < hi these are the steps that intersect [lo, hi)
C11_FindInterruptionFirstFromTo ==
    FindCalled =>
        LET steps == StepsFromTo(timeline, found.start, found.bound)
        IN /\ found.some => (found.index \in steps
                              /\ \A k \in steps : found.index <= k)
           /\ ~found.some <=> steps = {}
           /\ found.start < found.bound =>
                 steps = InterruptingSteps(timeline, found.start, found.bound)

C11_Witness ==
    /\ FindCalled
    /\ found.start < found.bound
    /\ found.some
    /\ found.index >= 2
    /\ Cardinality(InterruptingSteps(timeline, found.start, found.bound)) >= 2
    /\ \E i \in 0..(found.index - 1) : At(timeline.intervals, i).num_cores = timeline.max_num_cores

C11_WitnessEmptyRange ==
    /\ FindCalled
    /\ found.start > found.bound
    /\ found.some

RefineCalled == pc = "returned" /\ called.name = "refine"

\* the times of [earliest_start, earliest_finish) that lie outside
\* [latest_start, latest_finish)
EarlyOnlyTimes(j) ==
    {t \in 0..(MaxTime + MaxDuration) :
        /\ j.earliest_start <= t /\ t < get_earliest_finish(j)
        /\ ~(j.latest_start <= t /\ t < get_latest_finish(j))}

\* C12: after refine returns anything but Infeasible, the timeline has no
\* step at capacity at any time of [earliest_start, earliest_finish) outside
\* [latest_start, latest_finish), with the bounds the call left in the job.
C12_NoInterruptionBeforeLatestStart ==
    (RefineCalled /\ result # "Infeasible") =>
        \A t \in EarlyOnlyTimes(job) : CoresAt(timeline, t) # timeline.max_num_cores

C12_Witness ==
    /\ RefineCalled
    /\ result = "ModifiedJobAndIntervals"
    /\ job.earliest_start > called.job.earliest_start
    /\ job.latest_start < called.job.latest_start
    /\ EarlyOnlyTimes(job) # {}
    /\ timeline # previous
    /\ \E t \in EarlyOnlyTimes(called.job) : CoresAt(previous, t) = previous.max_num_cores

\* the same for a job that is not certainly infeasible when refine is called
C12_NoInterruptionWhenFeasibleAtEntry ==
    (RefineCalled /\ ~is_certainly_infeasible(called.job)) =>
        C12_NoInterruptionBeforeLatestStart

\* C13: strengthen_bounds_using_core_occupation terminates for every problem:
\* no refine call inside it runs for ever.
C13_OccupationTerminates == pc # "looping"

\* the orders in which n jobs can be stored
Orders(n) == {f \in [1..n -> 1..n] : \A a, b \in 1..n : f[a] = f[b] => a = b}

\* the problem with job f[i] stored at place i
Reordered(p, f) ==
    [p EXCEPT !.jobs = [i \in 1..Len(p.jobs) |-> [p.jobs[f[i]] EXCEPT !.index = i - 1]]]

OccupationReturned(r) == r \in {"Unchanged", "Modified", "Infeasible"}

\* two runs agree: both Infeasible, or neither and every job has the same
\* bounds in both
SameOutcome(p, r, f, other) ==
    /\ (r = "Infeasible") <=> (other.result = "Infeasible")
    /\ r # "Infeasible" =>
          \A i \in 1..Len(p.jobs) :
             JobData(other.problem.jobs[i]) = JobData(p.jobs[f[i]])

\* C14: the final bounds of strengthen_bounds_using_core_occupation, and
\* whether it returns Infeasible, do not depend on the order in which the
\* jobs are stored.
C14_OrderIndependent ==
    pc = "strengthened" =>
        \A f \in Orders(Len(original.jobs)) :
           LET other == strengthen_bounds_using_core_occupation(
                           Reordered(original, f), build = "checked")
           IN OccupationReturned(other.result) =>
                 SameOutcome(problem, result, f, other)

\* whether the sizes fit into bins: some assignment of the sizes to
\* num_processors bins fills no bin beyond bin_size
BinLoad(jobs, f, b) == SumTimes(SelectSeq([i \in 1..Len(jobs) |-> IF f[i] = b THEN jobs[i] ELSE 0], LAMBDA x : x > 0))

Packable(num_processors, bin_size, jobs) ==
    \E f \in [1..Len(jobs) -> 1..num_processors] :
       \A b \in 1..num_processors : BinLoad(jobs, f, b) <= bin_size

PackCalled == pc = "returned"

\* C17: is_certainly_unpackable is conservative: when it returns true, no
\* assignment of the sizes to the bins keeps every bin within bin_size.
C17_UnpackableIsConservative ==
    (PackCalled /\ result = "true") =>
        ~Packable(called.num_processors, called.bin_size, called.jobs)

C17_Witness ==
    /\ PackCalled
    /\ result = "true"
    /\ Len(called.jobs) >= 4
    /\ \A i \in 1..Len(called.jobs) : called.jobs[i] <= called.bin_size
    /\ SumTimes(called.jobs) <= called.num_processors * called.bin_size
    /\ called.num_processors = 3

\* C18: the oracle is monotone: a true answer stays true for every smaller
\* bin size, and for one processor less when there are at least two.
C18_UnpackableIsMonotone ==
    (PackCalled /\ result = "true") =>
        /\ \A smaller \in 0..(called.bin_size - 1) :
               is_certainly_unpackable(called.num_processors, smaller, called.jobs)
        /\ called.num_processors >= 2 =>
               is_certainly_unpackable(called.num_processors - 1, called.bin_size, called.jobs)

\* C19: for at most three sizes the oracle is exact: it returns true exactly
\* when no packing exists; it returns false for no sizes, false when every
\* size fits a bin and there are no more sizes than bins, and for three sizes
\* in two bins (each fitting, the total within both bins) it returns true
\* exactly when the two smallest sizes together exceed the bin.
C19_ExactUpToThree ==
    (PackCalled /\ Len(called.jobs) <= 3) =>
        /\ result = "true" <=>
               ~Packable(called.num_processors, called.bin_size, called.jobs)
        /\ called.jobs = <<>> => result = "false"
        /\ (/\ \A i \in 1..Len(called.jobs) : called.jobs[i] <= called.bin_size
            /\ Len(called.jobs) <= called.num_processors) => result = "false"
        /\ (/\ Len(called.jobs) = 3
            /\ called.num_processors = 2
            /\ \A i \in 1..3 : called.jobs[i] <= called.bin_size
            /\ SumTimes(called.jobs) <= 2 * called.bin_size) =>
               (result = "true" <=>
                   SortTimes(called.jobs)[1] + SortTimes(called.jobs)[2]
                       > called.bin_size)

\* three unsorted sizes in two bins, each fitting and the total fitting, of
\* which the two smallest cannot share a bin
C19_Witness ==
    /\ PackCalled
    /\ result = "true"
    /\ Len(called.jobs) = 3
    /\ called.num_processors = 2
    /\ \A i \in 1..3 : called.jobs[i] <= called.bin_size
    /\ SumTimes(called.jobs) <= 2 * called.bin_size
    /\ called.jobs[1] > called.jobs[2]
    /\ called.jobs[2] < called.jobs[3]

\* the inserted intervals a linear scan finds for the query
Scan(interval) ==
    {i \in 1..Len(pushed) :
        pushed[i].start < interval.end /\ pushed[i].end > interval.start}

\* what the last query appended
Appended == SubSeq(output, Len(previous) + 1, Len(output))

\* C20: a query after the inserts and the split appends to the output exactly
\* the inserted intervals i with i.start < q.end and i.end > q.start, each
\* exactly once, whatever the threshold and the intervals.
C20_QueryIsLinearScan ==
    pc = "queried" =>
        /\ SubSeq(output, 1, Len(previous)) = previous
        /\ {Appended[k] : k \in 1..Len(Appended)} = {pushed[i] : i \in Scan(called.interval)}
        /\ Len(Appended) = Cardinality(Scan(called.interval))

\* a query that descends into both children of a split tree and finds
\* intervals in three nodes, earlier output in front of them
C20_Witness ==
    /\ pc = "queried"
    /\ Len(tree) >= 3
    /\ previous # <<>>
    /\ \E a, b, c \in 1..Len(tree) :
          /\ a # b /\ b # c /\ a # c
          /\ QueryMiddle(tree[a].middle, called.interval) # <<>>
          /\ QueryMiddle(tree[b].middle, called.interval) # <<>>
          /\ QueryMiddle(tree[c].middle, called.interval) # <<>>

\* a query that leaves a child with intervals unvisited
C20_WitnessPruned ==
    /\ pc = "queried"
    /\ Len(tree) >= 3
    /\ tree[tree[1].before].middle # <<>>
    /\ ~(called.interval.start < tree[1].split_time)
    /\ Appended # <<>>

\* a split that never returns: every interval moves to the same child
C20_SplitOverflows == pc # "overflow"

\* C15: whenever strengthen_bounds_using_core_occupation returns Infeasible
\* in the pipeline, the printed verdict is INFEASIBLE.
C15_InfeasibleIsPrinted ==
    (pc = "printed" /\ occupation = "Infeasible") => printed = "INFEASIBLE"

\* the jobs running at a time when job i starts at starts[i]
RunningAt(p, starts, time) ==
    {i \in 1..Len(p.jobs) :
        starts[i] <= time /\ time < starts[i] + p.jobs[i].execution_time}

\* starts is a feasible non-preemptive schedule of p: every job starts within
\* its window, every constraint is respected and no more than num_cores jobs
\* run at any time
IsSchedule(p, starts) ==
    /\ \A i \in 1..Len(p.jobs) :
          p.jobs[i].earliest_start <= starts[i] /\ starts[i] <= p.jobs[i].latest_start
    /\ \A c \in 1..Len(p.constraints) :
          starts[p.constraints[c].after + 1] >=
              starts[p.constraints[c].before + 1]
                  + max_time_gap(p.constraints[c],
                                 At(p.jobs, p.constraints[c].before).execution_time)
    /\ \A time \in 0..MaxMainDeadline :
          Cardinality(RunningAt(p, starts, time)) <= p.num_cores

HasSchedule(p) ==
    \E starts \in [1..Len(p.jobs) -> 0..MaxMainDeadline] : IsSchedule(p, starts)

\* C16: for a problem with a feasible schedule no stage of the pipeline
\* reports infeasibility: the occupation strengthening does not return
\* Infeasible, no job becomes self-infeasible, and neither the load test nor
\* the interval test returns true.
C16_PipelineIsSound ==
    HasSchedule(original) =>
        /\ occupation # "Infeasible"
        /\ ~problem_is_certainly_infeasible(problem)
        /\ printed # "INFEASIBLE"

\* the key of the job with an index, as SortedJobIterator::new computed it
KeyOf(index) == At(problem.jobs, index).earliest_start

\* C21: the iterator holds every job once in ascending order of its key; a
\* next call returns the next unread job and advances by one when the
\* condition holds for its key, and otherwise returns None and stays; so the
\* jobs returned so far are the first jobs of that order, each once, and a
\* job that was refused is still the next one.
C21_IteratorContract ==
    /\ Len(iterator.jobs) = Len(problem.jobs)
    /\ \A index \in 0..(Len(problem.jobs) - 1) :
          \E i \in 1..Len(iterator.jobs) :
              iterator.jobs[i] = [job |-> index, value |-> KeyOf(index)]
    /\ \A i, j \in 1..Len(iterator.jobs) :
          i < j => iterator.jobs[i].value <= iterator.jobs[j].value
    /\ pc = "returned" =>
          /\ iterator.jobs = previous.jobs
          /\ IF previous.index < Len(previous.jobs)
                 /\ previous.jobs[previous.index + 1].value \in called.condition
             THEN /\ result = <<previous.jobs[previous.index + 1].job>>
                  /\ iterator.index = previous.index + 1
             ELSE /\ result = <<>>
                  /\ iterator.index = previous.index
    /\ taken = [i \in 1..iterator.index |-> iterator.jobs[i].job]
    /\ \A i, j \in 1..Len(taken) :
          i < j => taken[i] # taken[j] /\ KeyOf(taken[i]) <= KeyOf(taken[j])

\* a call returns the job that the call before it refused
C21_Witness ==
    /\ pc = "returned"
    /\ called.calls >= 2
    /\ called.before = <<>>
    /\ result # <<>>
    /\ Len(taken) >= 2
    /\ \E i, j \in 1..Len(problem.jobs) :
          i < j /\ problem.jobs[i].earliest_start > problem.jobs[j].earliest_start

\* a pass left a job with bounds that are at least as tight, and nothing
\* else of it changed
JobTightened(before, after) ==
    /\ after.earliest_start >= before.earliest_start
    /\ after.latest_start <= before.latest_start
    /\ after.execution_time = before.execution_time
    /\ after.index = before.index

\* the same for every job of a problem, its constraints and cores being kept
ProblemTightened(before, after) ==
    /\ Len(after.jobs) = Len(before.jobs)
    /\ \A i \in 1..Len(before.jobs) : JobTightened(before.jobs[i], after.jobs[i])
    /\ after.constraints = before.constraints
    /\ after.num_cores = before.num_cores

\* a step of the pipeline that runs a strengthening pass only tightens
PassTightens ==
    pc \in {"permuted", "constrained", "asserted"} =>
        /\ ProblemTightened(problem, problem')
        /\ \A i \in 1..Len(problem.jobs) :
              is_certainly_infeasible(problem.jobs[i])
                  => is_certainly_infeasible(problem'.jobs[i])

\* C22: every step of the pipeline that runs a strengthening pass
\* (strengthen_bounds_using_constraints, its repetition, and
\* strengthen_bounds_using_core_occupation with its refine calls) leaves every
\* earliest_start at least and every latest_start at most what it was, keeps
\* execution_time, index, constraints and num_cores, and so keeps every
\* self-infeasible job self-infeasible.
C22_PassesOnlyTighten == [][PassTightens]_vars

\* the pipeline after both passes changed bounds
C22_Witness ==
    /\ pc = "occupied"
    /\ build = "wrapping"
    /\ result = "Modified"
    /\ occupation = "Modified"

\* the same within a call of refine on any timeline
C22_RefineOnlyTightens ==
    (pc \in {"returned", "panic", "looping"} /\ called.name = "refine") =>
        JobTightened(called.job, job)

\* what main leaves when it has printed or aborted, for a second run on an
\* equal problem in the same build: where it stopped, what it printed and
\* the problem with its final bounds
SecondRun(p, checked) ==
    LET permuted == possible(p)
        constrained == strengthen_bounds_using_constraints(permuted.problem)
        again == IF checked
                 THEN strengthen_bounds_using_constraints(constrained.problem)
                 ELSE [problem |-> constrained.problem, result |-> "Nothing"]
        occupied == strengthen_bounds_using_core_occupation(again.problem, checked)
        restored == transform_back(permuted.permutation, occupied.problem)
        Stopped(at, verdict, final) == [pc |-> at, printed |-> verdict, problem |-> final]
    IN IF permuted.returned = "panic" THEN Stopped("panic", NoValue, permuted.problem)
       ELSE IF permuted.returned = "None"
       THEN Stopped("printed", "This problem is cyclic! INFEASIBLE", permuted.problem)
       ELSE IF constrained.result = "panic"
       THEN Stopped("panic", NoValue, constrained.problem)
       ELSE IF again.result # "Nothing" THEN Stopped("panic", NoValue, again.problem)
       ELSE IF occupied.result = "panic" THEN Stopped("panic", NoValue, occupied.problem)
       ELSE IF occupied.result = "loops"
       THEN Stopped("looping", NoValue, occupied.problem)
       ELSE IF problem_is_certainly_infeasible(restored)
       THEN Stopped("printed", "INFEASIBLE", restored)
       ELSE IF run_feasibility_load_test(restored) = "true"
       THEN Stopped("printed", "INFEASIBLE", restored)
       ELSE IF run_feasibility_load_test(restored) = "panic"
       THEN Stopped("panic", NoValue, restored)
       ELSE IF run_feasibility_interval_test(restored) = "true"
       THEN Stopped("printed", "INFEASIBLE", restored)
       ELSE IF run_feasibility_interval_test(restored) = "false"
       THEN Stopped("printed", "This problem may or may not be feasible.", restored)
       ELSE Stopped("panic", NoValue, restored)

LoadAfter(steps, time, minimum, maximum) ==
    load_test.time_index = steps =>
        /\ load_test.current_time = time
        /\ load_test.minimum_executed_load = minimum
        /\ load_test.maximum_executed_load = maximum

\* C24: on (0,5,16), (0,3,10), (0,8,10) with one core the first step of the
\* load test ends at time 2 with loads 0 and 2 and returns Running, the
\* second ends at time 7 with loads 8 > 7 and returns CertainlyInfeasible; on
\* (0,5,16), (0,3,10), (0,8,11) every step has minimum <= maximum and the
\* test ends Finished at time 16 with both loads 16.
C24_TightCases ==
    /\ (original = tight_infeasible_case_arriving_at0 /\ pc # "new") =>
          /\ load_test.time_index \in {1, 2}
          /\ LoadAfter(1, 2, 0, 2)
          /\ LoadAfter(2, 7, 8, 7)
          /\ pc = IF load_test.time_index = 1 THEN "Running" ELSE "CertainlyInfeasible"
    /\ (original = tight_feasible_case_arriving_at0 /\ pc # "new") =>
          /\ load_test.minimum_executed_load <= load_test.maximum_executed_load
          /\ pc \in {"Running", "Finished"}
          /\ pc = "Finished" <=> load_test.current_time = 16
          /\ pc = "Finished" =>
                /\ load_test.minimum_executed_load = 16
                /\ load_test.maximum_executed_load = 16

\* the second step of the infeasible case
C24_Witness ==
    /\ original = tight_infeasible_case_arriving_at0
    /\ pc = "CertainlyInfeasible"
    /\ load_test.current_time = 7

\* the last step of the feasible case
C24_WitnessFeasible ==
    /\ original = tight_feasible_case_arriving_at0
    /\ pc = "Finished"
    /\ load_test.time_index = 5

\* the interval test as far as the job at an index, and that job's step
IntervalStepAt(p, index) ==
    IntervalTest_next([IntervalTest_new(p) EXCEPT !.next_job_index = index], p)

\* C25: on (23,68,100), (10,78,100), (0,18,20), (0,34,38) with two cores the
\* interval test returns true, the window of the short job (0,34,38) giving
\* required loads the oracle declares unpackable, while the load test on the
\* same problem returns false and strengthen_bounds_using_core_occupation
\* returns Infeasible.
C25_IntervalRegression ==
    original = feasibility_interval_regression_suboptimal =>
        /\ pc \in {"parsed", "Running", "CertainlyInfeasible"}
        /\ result \in {NoValue, "false"}
        /\ occupation \in {NoValue, "Infeasible"}
        /\ IntervalStepAt(original, 3).required_loads = <<6, 16, 18, 34>>
        /\ IntervalResult(IntervalStepAt(original, 3), original) = "CertainlyInfeasible"

\* the three analyses have run on the problem
C25_Witness ==
    /\ original = feasibility_interval_regression_suboptimal
    /\ pc = "CertainlyInfeasible"
    /\ result = "false"
    /\ occupation = "Infeasible"

\* C26: with one core and the jobs (0,11,45), (10,1,11), (20,1,21), (30,1,31),
\* (40,1,41) every insert of the function succeeds and the refine of job 0
\* returns Infeasible, so the function returns Infeasible; with job 0 of
\* execution time 10 it returns Modified with job 0 at [0, 0], and with
\* execution time 9 it returns Modified with job 0 at earliest_start 0 and
\* latest_start 31.
PeriodicReturned(execution_time) ==
    /\ original = periodic_infeasible_problem(execution_time)
    /\ called.calls = 1
    /\ pc = "returned"

C26_PeriodicStrengthening ==
    /\ (original = periodic_infeasible_problem(11) /\ called.calls = 1)
         => /\ pc \in {"inserting", "refining", "returned"}
            /\ pc = "inserting" => result \in {NoValue, "false"}
            /\ pc = "refining" => result = "false" /\ called.index = 0
            /\ pc = "returned"
                 => /\ result = "Infeasible"
                    /\ called.index = 1
                    /\ occupation = "Infeasible"
    /\ (original \in {periodic_infeasible_problem(10), periodic_infeasible_problem(9)}
            /\ called.calls = 1)
         => pc \in {"inserting", "refining", "returned"}
    /\ PeriodicReturned(10)
         => /\ occupation = "Modified"
            /\ At(problem.jobs, 0).earliest_start = 0
            /\ At(problem.jobs, 0).latest_start = 0
    /\ PeriodicReturned(9)
         => /\ occupation = "Modified"
            /\ At(problem.jobs, 0).earliest_start = 0
            /\ At(problem.jobs, 0).latest_start = 31

C26_Witness ==
    /\ PeriodicReturned(11)
    /\ build = "checked"
    /\ result = "Infeasible"
    /\ occupation = "Infeasible"
    /\ Len(timeline.intervals) = 9

C26_WitnessModified ==
    /\ PeriodicReturned(9)
    /\ occupation = "Modified"
    /\ At(problem.jobs, 0).latest_start = 31

\* the last call of the function was a refine that returned; called.job and
\* called.timeline are what it was handed, RefinedJob what it left
RefineReturned ==
    /\ pc \in {"refining", "returned"}
    /\ called.index >= 1
    /\ result \in {"Unchanged", "ModifiedJob", "ModifiedJobAndIntervals", "Infeasible"}

RefinedJob == At(problem.jobs, called.index - 1)

\* the times at which one of two timelines steps
StepTimes(tl, other) ==
    {tl.intervals[i].start : i \in 1..Len(tl.intervals)}
    \cup {other.intervals[i].start : i \in 1..Len(other.intervals)}

\* the certainly-busy window [latest_start, earliest_finish) of a job holds t
CertainlyBusyAt(j, t) == j.latest_start <= t /\ t < get_earliest_finish(j)

\* Unchanged iff the bounds are as they were, and then the timeline is too
RefineUnchangedFaithful ==
    RefineReturned =>
        /\ (result = "Unchanged") <=> (RefinedJob = called.job)
        /\ result = "Unchanged" => timeline = called.timeline

\* Infeasible iff earliest_start > latest_start behind the two loops
RefineInfeasibleFaithful ==
    RefineReturned => ((result = "Infeasible") <=> is_certainly_infeasible(RefinedJob))

\* ModifiedJob only when the job changed and the timeline did not
RefineModifiedJobFaithful ==
    (RefineReturned /\ result = "ModifiedJob") =>
        (RefinedJob # called.job /\ timeline = called.timeline)

\* ModifiedJobAndIntervals only when the certainly-busy window grew and
\* what it grew by was inserted
RefineModifiedIntervalsFaithful ==
    (RefineReturned /\ result = "ModifiedJobAndIntervals") =>
        /\ \A t \in 0..get_latest_finish(called.job) :
              CertainlyBusyAt(called.job, t) => CertainlyBusyAt(RefinedJob, t)
        /\ \E t \in 0..get_latest_finish(called.job) :
              CertainlyBusyAt(RefinedJob, t) /\ ~CertainlyBusyAt(called.job, t)
        /\ \A t \in StepTimes(timeline, called.timeline)
                     \cup {RefinedJob.latest_start, called.job.latest_start,
                           get_earliest_finish(RefinedJob),
                           get_earliest_finish(called.job)} :
              CoresAt(timeline, t) = CoresAt(called.timeline, t) +
                 (IF CertainlyBusyAt(RefinedJob, t) /\ ~CertainlyBusyAt(called.job, t)
                  THEN 1 ELSE 0)

\* refine once more on the job it has just returned for returns Unchanged
RefineAgainUnchanged ==
    (RefineReturned /\ result # "Infeasible") =>
        refine(timeline, RefinedJob, build = "checked").returned = "Unchanged"

\* C28: refine returns Unchanged iff the bounds of the job are as they were
\* (and then the timeline is too), Infeasible iff earliest_start >
\* latest_start behind the two loops, ModifiedJob only when the job changed
\* and the timeline did not, ModifiedJobAndIntervals only when the
\* certainly-busy window grew and what it grew by was inserted; refine once
\* more on the same job returns Unchanged.
C28_RefineResultFaithful ==
    /\ RefineUnchangedFaithful
    /\ RefineInfeasibleFaithful
    /\ RefineModifiedJobFaithful
    /\ RefineModifiedIntervalsFaithful
    /\ RefineAgainUnchanged

\* the jobs whose certainly-busy window holds t
CertainlyRunningAt(jobs, t) == {i \in 1..Len(jobs) : CertainlyBusyAt(jobs[i], t)}

\* the times at which the timeline or the windows of the jobs step
WindowTimes(tl, jobs) ==
    StepTimes(tl, tl)
    \cup {jobs[i].latest_start : i \in 1..Len(jobs)}
    \cup {get_earliest_finish(jobs[i]) : i \in 1..Len(jobs)}

\* the initial inserts are done and no refine has returned Infeasible
TimelineBuilt ==
    \/ pc = "refining"
    \/ pc = "returned" /\ occupation \in {"Unchanged", "Modified"}

\* C29: behind the initial inserts and behind every refine that did not
\* return Infeasible, the busy-core count of the timeline at every time t is
\* the number of jobs whose certainly-busy window [latest_start,
\* earliest_finish) holds t: the timeline updated step by step is the
\* timeline built anew from the bounds of the jobs.
C29_TimelineConsistent ==
    TimelineBuilt =>
        \A t \in WindowTimes(timeline, problem.jobs) :
           CoresAt(timeline, t) = Cardinality(CertainlyRunningAt(problem.jobs, t))

\* a call of the function has returned Unchanged or Modified
StrengthenReturned == pc = "returned" /\ occupation \in {"Unchanged", "Modified"}

\* Unchanged iff no bound differs from its value before the call, Modified
\* iff some bound does
StrengthenResultFaithful ==
    StrengthenReturned => ((occupation = "Unchanged") <=> (problem = previous))

\* at the end of a call the refine of every job against the final timeline
\* is Unchanged
StrengthenFixpoint ==
    StrengthenReturned =>
        \A i \in 1..Len(problem.jobs) :
           refine(timeline, problem.jobs[i], build = "checked").returned = "Unchanged"

\* the second call returns, with Unchanged and every bound as it was
StrengthenAgainUnchanged ==
    called.calls = 2 =>
        /\ pc \in {"inserting", "refining", "returned"}
        /\ pc = "returned" => (occupation = "Unchanged" /\ problem = previous)

\* C30: the function returns Unchanged iff no job bound differs from its
\* value before the call and Modified iff some bound changed and no
\* infeasibility was found; a second call on a problem for which the first
\* returned Unchanged or Modified returns Unchanged and changes no bound (at
\* the end of a call the refine of every job against the final timeline is
\* Unchanged).
C30_StrengthenIdempotent ==
    /\ StrengthenResultFaithful
    /\ StrengthenFixpoint
    /\ StrengthenAgainUnchanged

\* the RunningJob pushed by the schedule call for the job of index index
LogOf(index) ==
    called.log[CHOOSE k \in 1..Len(called.log) : called.log[k].job = index]

\* the start of log entry k respects the constraint
ConstraintKept(constraint, k) ==
    /\ \E b \in 1..(k - 1) : called.log[b].job = constraint.before
    /\ called.log[k].started_at >=
          constraint.delay +
             (IF constraint.constraint_type = "FinishToStart"
              THEN LogOf(constraint.before).finishes_at
              ELSE LogOf(constraint.before).started_at)

\* the jobs that execute at time t
ExecutingAt(t) ==
    {k \in 1..Len(called.log) :
        called.log[k].started_at <= t /\ t < called.log[k].finishes_at}

\* C27: behind any sequence of schedule calls, every job at most once and
\* behind its predecessors, num_dispatched_jobs is the number of calls, every
\* job started at or after its earliest_start and at or after start(before) +
\* delay (StartToStart) or finish(before) + delay (FinishToStart) for each of
\* its constraints, at most num_cores jobs execute at any time, and
\* has_missed_deadline holds iff some job started after its latest_start.
C27_SimulatorSchedules ==
    pc = "ready" =>
        /\ num_dispatched_jobs(simulator) = Len(called.log)
        /\ \A k \in 1..Len(called.log) :
              /\ called.log[k].started_at
                    >= At(problem.jobs, called.log[k].job).earliest_start
              /\ called.log[k].finishes_at = called.log[k].started_at
                    + At(problem.jobs, called.log[k].job).execution_time
              /\ \A c \in 1..Len(problem.constraints) :
                    problem.constraints[c].after = called.log[k].job
                       => ConstraintKept(problem.constraints[c], k)
              /\ Cardinality(ExecutingAt(called.log[k].started_at)) <= problem.num_cores
        /\ has_missed_deadline(simulator)
              <=> \E k \in 1..Len(called.log) :
                     called.log[k].started_at
                        > At(problem.jobs, called.log[k].job).latest_start

\* the good order of the test: jobs 0, 1, 2 start at 0, 2 and 30
C27_Witness ==
    /\ pc = "ready"
    /\ problem = test_with_mixed_constraints_and_two_cores
    /\ called.log = <<RunningJob(0, 0, 20), RunningJob(1, 2, 32), RunningJob(2, 30, 60)>>
    /\ ~has_missed_deadline(simulator)
    /\ num_dispatched_jobs(simulator) = 3

\* the bad order of the test: job 2 before job 1
C27_WitnessMissed ==
    /\ pc = "ready"
    /\ problem = test_with_mixed_constraints_and_two_cores
    /\ Len(called.log) = 3
    /\ called.log[2].job = 2
    /\ has_missed_deadline(simulator)
    /\ num_dispatched_jobs(simulator) = 3

\* the distinct non-zero values among the latest_start and latest_finish of
\* the jobs
EventTimes(jobs) ==
    ({jobs[i].latest_start : i \in 1..Len(jobs)}
        \cup {get_latest_finish(jobs[i]) : i \in 1..Len(jobs)}) \ {0}

\* a call of next has returned
LoadStepped == pc \in {"Running", "Finished", "CertainlyInfeasible"}

\* C31: the load test visits exactly the distinct non-zero values among the
\* latest_start and latest_finish of all jobs, in strictly ascending order,
\* one per call of next; current_time is the event time just processed; next
\* returns Running while events remain, Finished behind the last event, and
\* CertainlyInfeasible exactly when minimum_executed_load >
\* maximum_executed_load at the event just processed, and then
\* run_feasibility_load_test returns true with later events left alone.
C31_LoadVisitsEvents ==
    /\ {load_test.times_of_interest[i] : i \in 1..Len(load_test.times_of_interest)}
          = EventTimes(problem.jobs)
    /\ \A i \in 1..(Len(load_test.times_of_interest) - 1) :
          load_test.times_of_interest[i] < load_test.times_of_interest[i + 1]
    /\ pc = "new" => load_test.time_index = 0
    /\ pc = "panic" => load_test.times_of_interest = <<>>
    /\ LoadStepped =>
          /\ load_test.time_index = previous.time_index + 1
          /\ load_test.time_index <= Len(load_test.times_of_interest)
          /\ load_test.current_time
                = load_test.times_of_interest[load_test.time_index]
          /\ previous.time_index > 0
                => previous.current_time
                     = load_test.times_of_interest[previous.time_index]
          /\ (pc = "CertainlyInfeasible")
                <=> load_test.minimum_executed_load > load_test.maximum_executed_load
          /\ pc = "Running"
                => load_test.time_index < Len(load_test.times_of_interest)
          /\ pc = "Finished"
                => load_test.time_index = Len(load_test.times_of_interest)
          /\ pc = "CertainlyInfeasible"
                => run_feasibility_load_test(problem) = "true"
          /\ pc = "Finished" => run_feasibility_load_test(problem) = "false"

\* infeasible at an event that is not the last: the later events are never
\* processed
C31_Witness ==
    /\ pc = "CertainlyInfeasible"
    /\ load_test.time_index >= 2
    /\ load_test.time_index < Len(load_test.times_of_interest)
    /\ original # tight_infeasible_case_arriving_at0

C31_WitnessFinished ==
    /\ pc = "Finished"
    /\ load_test.time_index >= 4
    /\ load_test.minimum_executed_load = load_test.maximum_executed_load

\* the largest latest_finish of the jobs
LastEvent(jobs) ==
    CHOOSE t \in EventTimes(jobs) : \A u \in EventTimes(jobs) : u <= t

\* the sum of the execution times of the jobs
TotalExecutionTime(jobs) ==
    SumTimes([i \in 1..Len(jobs) |-> jobs[i].execution_time])

\* C32: when the load test reaches Finished (every job with 0 <=
\* earliest_start <= latest_start), at the last event time, the largest
\* latest_finish, minimum_executed_load = maximum_executed_load = the sum of
\* the execution times of all jobs; one job (0, e, d) with e = d on one core
\* gives exactly one step, with both loads e.
C32_FinishedLoadsAreTotal ==
    /\ pc = "Finished" =>
          /\ load_test.current_time = LastEvent(problem.jobs)
          /\ load_test.minimum_executed_load = TotalExecutionTime(problem.jobs)
          /\ load_test.maximum_executed_load = TotalExecutionTime(problem.jobs)
    /\ (Len(problem.jobs) = 1 /\ problem.num_cores = 1
          /\ problem.jobs[1].earliest_start = 0 /\ problem.jobs[1].latest_start = 0)
         => /\ Len(load_test.times_of_interest) = 1
            /\ pc \in {"new", "Finished"}
            /\ pc = "Finished"
                 => /\ load_test.time_index = 1
                    /\ load_test.minimum_executed_load = problem.jobs[1].execution_time
                    /\ load_test.maximum_executed_load = problem.jobs[1].execution_time

\* the last step of the test with ten jobs on two cores
C32_Witness ==
    /\ original = tight_feasible_with_2_cores_and_more_jobs
    /\ pc = "Finished"
    /\ load_test.current_time = 30
    /\ load_test.minimum_executed_load = 60
    /\ load_test.maximum_executed_load = 60

\* the only step of the test with one job
C32_WitnessOneJob ==
    /\ original = feasibility_load_with_1_job_variant1
    /\ pc = "Finished"
    /\ load_test.current_time = 1000
    /\ load_test.minimum_executed_load = 1000
    /\ load_test.maximum_executed_load = 1000

\* the jobs of a Vec of LoadJobs
LoadJobsOf(load_jobs) == {load_jobs[i].job : i \in 1..Len(load_jobs)}

\* the jobs whose latest_finish is at or before a time
FinishedBy(jobs, time) == {i \in 1..Len(jobs) : get_latest_finish(jobs[i]) <= time}

\* C33: in every state of the load test maximum_executed_load <= num_cores *
\* current_time, maximum_executed_load <= certainly_finished_jobs_load + the
\* execution times of the possibly running jobs, the execution time of each
\* job is in certainly_finished_jobs_load at most once, and no job is in
\* possibly_running_jobs or certainly_started_jobs at an event time at or
\* behind its latest_finish.
C33_LoadInvariants ==
    pc # "panic" =>
        /\ load_test.maximum_executed_load <= problem.num_cores * load_test.current_time
        /\ load_test.maximum_executed_load <= MaxLoadBound2(load_test, problem)
        /\ load_test.certainly_finished_jobs_load =
              SumTimes([i \in 1..Len(problem.jobs) |->
                  IF i \in FinishedBy(problem.jobs, load_test.current_time)
                  THEN problem.jobs[i].execution_time ELSE 0])
        /\ Cardinality(LoadJobsOf(load_test.possibly_running_jobs))
              = Len(load_test.possibly_running_jobs)
        /\ \A i \in LoadJobsOf(load_test.possibly_running_jobs)
                     \cup LoadJobsOf(load_test.certainly_started_jobs) :
              get_latest_finish(At(problem.jobs, i)) > load_test.current_time

\* a state with finished, possibly running and certainly started jobs at once
C33_Witness ==
    /\ pc = "Running"
    /\ load_test.certainly_finished_jobs_load > 0
    /\ Len(load_test.possibly_running_jobs) >= 2
    /\ Len(load_test.certainly_started_jobs) >= 1
    /\ load_test.maximum_executed_load = problem.num_cores * load_test.current_time
    /\ load_test.maximum_executed_load < MaxLoadBound2(load_test, problem)

\* a call of IntervalTest::next has returned; WindowJob is the job it was for
IntervalStepped ==
    /\ pc \in {"Running", "Finished", "CertainlyInfeasible"}
    /\ interval_test.next_job_index >= 1

WindowJob == At(problem.jobs, interval_test.next_job_index - 1)

\* the time job other certainly spends outside the window [lo, hi)
OutsideWindow(other, lo, hi) ==
    Max(Max(lo - other.earliest_start, 0), Max(get_latest_finish(other) - hi, 0))

\* the jobs that put a load on the window [lo, hi): their lifetime overlaps
\* it and their execution time exceeds their time outside
LoadingJobs(jobs, lo, hi) ==
    {i \in 1..Len(jobs) :
        /\ jobs[i].earliest_start < hi
        /\ get_latest_finish(jobs[i]) > lo
        /\ jobs[i].execution_time > OutsideWindow(jobs[i], lo, hi)}

\* their loads, in the order of the jobs, sorted
WindowLoads(jobs, lo, hi) ==
    SortTimes([k \in 1..Len(SelectSeq([i \in 1..Len(jobs) |-> i],
                                      LAMBDA i : i \in LoadingJobs(jobs, lo, hi))) |->
        Min(jobs[SelectSeq([i \in 1..Len(jobs) |-> i],
                           LAMBDA i : i \in LoadingJobs(jobs, lo, hi))[k]].execution_time
              - OutsideWindow(jobs[SelectSeq([i \in 1..Len(jobs) |-> i],
                                   LAMBDA i : i \in LoadingJobs(jobs, lo, hi))[k]], lo, hi),
            hi - lo)])

\* C34: for each job J the interval test builds, for the window
\* [J.earliest_start, J.latest_finish), one required load
\* min(other.execution_time - non_overlapping, window length) for every job
\* other (J included) whose lifetime overlaps the window and whose
\* execution_time exceeds non_overlapping; it returns CertainlyInfeasible iff
\* is_certainly_unpackable(num_cores, window length, loads), and the jobs of
\* one window never reach the loads of the next.
C34_IntervalLoads ==
    IntervalStepped =>
        /\ interval_test.start_time = WindowJob.earliest_start
        /\ interval_test.end_time = get_latest_finish(WindowJob)
        /\ SortTimes(interval_test.required_loads)
              = WindowLoads(problem.jobs, interval_test.start_time, interval_test.end_time)
        /\ Len(interval_test.corresponding_jobs) = Len(interval_test.required_loads)
        /\ {interval_test.corresponding_jobs[i] + 1 :
                i \in 1..Len(interval_test.corresponding_jobs)}
              = LoadingJobs(problem.jobs, interval_test.start_time, interval_test.end_time)
        /\ WindowJob.index + 1
              \in LoadingJobs(problem.jobs, interval_test.start_time, interval_test.end_time)
        /\ interval_test.relevant_jobs = <<>>
        /\ (pc = "CertainlyInfeasible")
              <=> is_certainly_unpackable(problem.num_cores,
                      interval_test.end_time - interval_test.start_time,
                      WindowLoads(problem.jobs, interval_test.start_time,
                                  interval_test.end_time))

\* a later window with fewer loads than the window before it had, one of
\* them cut by the time outside the window
C34_Witness ==
    /\ IntervalStepped
    /\ interval_test.next_job_index >= 2
    /\ Len(interval_test.required_loads) < Len(problem.jobs)
    /\ Len(interval_test.required_loads) >= 2
    /\ \E i \in 1..Len(interval_test.required_loads) :
          interval_test.required_loads[i]
             < At(problem.jobs, interval_test.corresponding_jobs[i]).execution_time
    /\ Cardinality(LoadingJobs(problem.jobs,
                       At(problem.jobs, interval_test.next_job_index - 2).earliest_start,
                       get_latest_finish(At(problem.jobs,
                                            interval_test.next_job_index - 2))))
          = Len(problem.jobs)

\* the nodes of the tree that hold the inserted interval i
NodesHolding(i) ==
    {n \in 1..Len(tree) :
        \E k \in 1..Len(tree[n].middle) : tree[n].middle[k] = pushed[i]}

\* every node without children holds fewer intervals than the threshold
LeavesAreSmall ==
    \A n \in 1..Len(tree) :
        (tree[n].before = 0 /\ tree[n].after = 0) =>
            Len(tree[n].middle) < called.threshold

\* every inserted interval is stored in exactly one node, and nothing else is
StoredOnce ==
    /\ \A i \in 1..Len(pushed) : Cardinality(NodesHolding(i)) = 1
    /\ SumTimes([n \in 1..Len(tree) |-> Len(tree[n].middle)]) = Len(pushed)

\* the inserted intervals all have end > start
NoEmptyInterval == \A i \in 1..Len(pushed) : pushed[i].end > pushed[i].start

\* a split that returned leaves small leaves and every interval in one node
C35_ReturnedSplitPartitions ==
    (pc \in {"split", "queried"}) => (LeavesAreSmall /\ StoredOnce)

\* C35: split terminates for every finite set of inserted intervals with
\* end > start, sets of threshold-many identical or unit-length intervals
\* included, and afterwards every node without children holds fewer than the
\* threshold number of intervals and every interval is in exactly one node.
C35_SplitTerminates ==
    (pc \in {"split", "queried", "overflow"} /\ NoEmptyInterval) =>
        (pc # "overflow" /\ LeavesAreSmall /\ StoredOnce)

\* three identical intervals of length 1 under threshold 3: split never returns
C35_WitnessIdenticalUnit ==
    /\ pc = "overflow"
    /\ called.threshold = 3
    /\ Len(pushed) = 3
    /\ \A i \in 1..3 : pushed[i].start = 0 /\ pushed[i].end = 1

\* the three verdicts main prints
Verdicts ==
    {"This problem is cyclic! INFEASIBLE", "INFEASIBLE",
     "This problem may or may not be feasible."}

\* ProblemPermutation::possible returned None for the parsed problem
ReportedCyclic == possible(original).returned = "None"

\* what line 31 evaluates on the problem line 30 left, from left to right
VerdictCondition ==
    \/ problem_is_certainly_infeasible(problem)
    \/ run_feasibility_load_test(problem) = "true"
    \/ run_feasibility_interval_test(problem) = "true"

\* C36: when possible reports a cycle main prints the cyclic INFEASIBLE
\* message and runs no pass and no test; when it does not, main prints
\* INFEASIBLE iff a job is certainly infeasible behind the passes or the load
\* test or the interval test returns true, and else that the problem may or
\* may not be feasible; no other verdict is ever printed.
C36_DriverVerdicts ==
    /\ printed # NoValue => (pc = "printed" /\ printed \in Verdicts)
    /\ pc = "printed" =>
          /\ printed \in Verdicts
          /\ ReportedCyclic <=> printed = "This problem is cyclic! INFEASIBLE"
          /\ ReportedCyclic =>
                /\ occupation = NoValue
                /\ result = "None"
                /\ problem = possible(original).problem
          /\ ~ReportedCyclic =>
                /\ occupation # NoValue
                /\ printed = "INFEASIBLE" <=> VerdictCondition
                /\ printed = "This problem may or may not be feasible."
                       <=> ~VerdictCondition
    /\ (ReportedCyclic /\ pc # "parsed") => pc = "printed"

\* INFEASIBLE printed on the word of the interval test alone
C36_Witness ==
    /\ pc = "printed"
    /\ printed = "INFEASIBLE"
    /\ ~problem_is_certainly_infeasible(problem)
    /\ run_feasibility_load_test(problem) = "false"
    /\ result = "true"

\* the cyclic verdict
C36_WitnessCyclic ==
    /\ pc = "printed"
    /\ printed = "This problem is cyclic! INFEASIBLE"
    /\ original.constraints # <<>>
    /\ build = "wrapping"

\* the undecided verdict behind passes that changed the problem
C36_WitnessUndecided ==
    /\ pc = "printed"
    /\ printed = "This problem may or may not be feasible."
    /\ occupation = "Modified"

\* INFEASIBLE printed for a job whose window the passes closed
C36_WitnessSelfInfeasible ==
    /\ pc = "printed"
    /\ printed = "INFEASIBLE"
    /\ problem_is_certainly_infeasible(problem)
    /\ ~problem_is_certainly_infeasible(original)

\* transform_back (line 30) keeps whether a job is certainly infeasible
C36_RestoreKeepsVerdict ==
    [][MainTransformBack =>
          (problem_is_certainly_infeasible(problem)
              <=> problem_is_certainly_infeasible(problem'))]_vars

\* the undispatched jobs with a predecessor that has not been dispatched
MissingPredecessor ==
    {i \in 0..(Len(problem.jobs) - 1) :
        /\ i \notin Dispatched
        /\ \E c \in 1..Len(problem.constraints) :
              /\ problem.constraints[c].after = i
              /\ problem.constraints[c].before \notin Dispatched}

\* the last schedule call was for the job of the last prediction, and no
\* other schedule call came between the two
ScheduledAsPredicted ==
    /\ pc = "ready"
    /\ called.log # <<>>
    /\ previous.calls = Len(called.log) - 1
    /\ previous.job = called.log[Len(called.log)].job

\* a schedule call either panics, leaving the simulator as it was, or
\* dispatches a job all of whose predecessors were dispatched before
SchedulePanicsOrDispatches ==
    SimulatorSchedule =>
        IF pc' = "panic"
        THEN /\ simulator' = simulator
             /\ called' = called
             /\ MissingPredecessor # {}
        ELSE /\ Len(called'.log) = Len(called.log) + 1
             /\ called'.log[Len(called'.log)].job \notin Dispatched
             /\ called'.log[Len(called'.log)].job \notin MissingPredecessor

\* the predictions leave the simulator as it was
PredictKeepsState ==
    SimulatorPredict => (simulator' = simulator /\ called' = called)

\* C37: schedule of a job with a predecessor that has not been scheduled
\* panics and dispatches nothing; predict_start_time and
\* predict_next_start_time leave the simulator unchanged, and a schedule call
\* right behind a prediction for the same job starts the job at the predicted
\* time.
C37_PredictThenSchedule ==
    /\ [](ScheduledAsPredicted =>
             called.log[Len(called.log)].started_at = previous.start)
    /\ [][SchedulePanicsOrDispatches]_vars
    /\ [][PredictKeepsState]_vars

\* the test's prediction of 20 and 50 for job 1 behind job 0, and job 1
\* scheduled at 20
C37_Witness ==
    /\ problem = test_predict_start_time_with_one_core
    /\ previous = Prediction(1, 20, 50, 1)
    /\ called.log = <<RunningJob(0, 0, 20), RunningJob(1, 20, 50)>>
    /\ ScheduledAsPredicted

\* the panic of the test: job 1 before its predecessor job 0
C37_WitnessPanic ==
    /\ problem = test_with_finish_to_start_constraints
    /\ pc = "panic"
    /\ called.log = <<>>
    /\ MissingPredecessor = {1}

\* a prediction on two cores that waits for a predecessor, then the schedule
C37_WitnessTwoCores ==
    /\ problem = test_with_mixed_constraints_and_two_cores
    /\ previous = Prediction(2, 30, 32, 2)
    /\ ScheduledAsPredicted

\* behind a schedule as predicted the next free core is free at the time
\* predict_next_start_time gave
C37_NextCoreAsPredicted ==
    ScheduledAsPredicted =>
        next_start_time(simulator.core_availability) = previous.next

\* ------------------------------------------------------ the heuristic queue
\* the problem of test_problem_with_three_jobs and, with its constraint, of
\* test_problem_with_constraint (solver/queue.rs 136-144 and 202-212)
test_problem_with_three_jobs ==
    [jobs |-> <<release_to_deadline(0, 10, 2, 30), release_to_deadline(1, 20, 2, 30),
                release_to_deadline(2, 0, 2, 30)>>,
     constraints |-> <<>>,
     num_cores |-> 1]

test_problem_with_constraint ==
    [test_problem_with_three_jobs EXCEPT
        !.constraints = <<Constraint(0, 2, 3, "StartToStart")>>]

\* the acyclic problems of n jobs; the queue reads the number of jobs and the
\* ends of the constraints only
QueueProblems(n) ==
    {q \in {[jobs |-> [i \in 1..n |-> release_to_deadline(i - 1, 0, 1, MaxDeadline)],
             constraints |-> constraints, num_cores |-> 1] :
                constraints \in SeqsUpTo({Constraint(b, a, 0, "StartToStart") :
                                             b \in 0..(n - 1), a \in 0..(n - 1)},
                                         MaxConstraints)} :
        ~HasCycle(q)}

\* the Vecs a JobOrdering can hold: sort_by of the indices with any compare
JobOrderings(n) ==
    {o \in [1..n -> 0..(n - 1)] : \A a, b \in 1..n : o[a] = o[b] => a = b}

\* the JobOrdering of the tests: by earliest_start, the sort being stable
EarliestStartFirst(p) ==
    CHOOSE o \in JobOrderings(Len(p.jobs)) :
        \A a, b \in 1..Len(p.jobs) :
            a < b => \/ At(p.jobs, o[a]).earliest_start < At(p.jobs, o[b]).earliest_start
                     \/ /\ At(p.jobs, o[a]).earliest_start = At(p.jobs, o[b]).earliest_start
                        /\ o[a] < o[b]

\* let mut queue = HeuristicJobQueue::new(..); called holds the ordering, the
\* module whose choose_next is called, the jobs the calls returned and the
\* to_skip and the safe jobs of the last call
InitQueue ==
    /\ pc = "ready"
    /\ problem \in {test_problem_with_three_jobs, test_problem_with_constraint}
                    \cup UNION {QueueProblems(n) : n \in 1..MaxJobs}
    /\ original = problem
    /\ queue = HeuristicJobQueue_new(problem, PrecedenceTracker_new(problem))
    /\ \E ordering \in JobOrderings(Len(problem.jobs)) :
         \E module \in {"queue", "heuristic_job_queue"} :
            called = [ordering |-> ordering, module |-> module, returned |-> <<>>,
                      to_skip |-> 0, safe |-> {}]
    /\ permutation = NoValue
    /\ result = NoValue
    /\ previous = NoValue
    /\ timeline = NoValue
    /\ job = NoValue
    /\ found = NoValue
    /\ build = NoValue
    /\ tree = NoValue
    /\ output = NoValue
    /\ pushed = NoValue
    /\ occupation = NoValue
    /\ printed = NoValue
    /\ iterator = NoValue
    /\ taken = NoValue
    /\ load_test = NoValue
    /\ interval_test = NoValue
    /\ simulator = NoValue

\* queue.choose_next(&fat, to_skip, &ordering, &tracker, predict) of
\* solver/queue.rs; the call panics when no job can be chosen
ChooseNext ==
    /\ pc = "ready"
    /\ called.module = "queue"
    /\ \E to_skip \in 0..MaxToSkip :
         \E safe \in SUBSET (0..(Len(problem.jobs) - 1)) :
            /\ queue' = choose_next(queue, PrecedenceTracker_new(problem), to_skip,
                                    called.ordering, safe).self
            /\ pc' = IF choose_next(queue, PrecedenceTracker_new(problem), to_skip,
                                    called.ordering, safe).panic
                     THEN "panic" ELSE "ready"
            /\ called' =
                  [called EXCEPT
                      !.to_skip = to_skip,
                      !.safe = safe,
                      !.returned =
                          IF choose_next(queue, PrecedenceTracker_new(problem), to_skip,
                                         called.ordering, safe).panic
                          THEN @
                          ELSE Append(@, choose_next(queue, PrecedenceTracker_new(problem),
                                             to_skip, called.ordering, safe).job)]
    /\ previous' = queue
    /\ UNCHANGED <<problem, original, permutation, result, timeline, job, found,
                   build, tree, output, pushed, occupation, printed, iterator,
                   taken, load_test, interval_test, simulator>>

\* queue.choose_next(to_skip, &ordering, &tracker) of
\* solver/heuristic_job_queue.rs, where every job is safe
HeuristicChooseNext ==
    /\ pc = "ready"
    /\ called.module = "heuristic_job_queue"
    /\ \E to_skip \in 0..MaxToSkip :
            /\ queue' = heuristic_choose_next(queue, PrecedenceTracker_new(problem),
                                              to_skip, called.ordering).self
            /\ pc' = IF heuristic_choose_next(queue, PrecedenceTracker_new(problem),
                                              to_skip, called.ordering).panic
                     THEN "panic" ELSE "ready"
            /\ called' =
                  [called EXCEPT
                      !.to_skip = to_skip,
                      !.safe = 0..(Len(problem.jobs) - 1),
                      !.returned =
                          IF heuristic_choose_next(queue, PrecedenceTracker_new(problem),
                                                   to_skip, called.ordering).panic
                          THEN @
                          ELSE Append(@, heuristic_choose_next(queue,
                                             PrecedenceTracker_new(problem), to_skip,
                                             called.ordering).job)]
    /\ previous' = queue
    /\ UNCHANGED <<problem, original, permutation, result, timeline, job, found,
                   build, tree, output, pushed, occupation, printed, iterator,
                   taken, load_test, interval_test, simulator>>

NextQueue == ChooseNext \/ HeuristicChooseNext

SpecQueue == InitQueue /\ [][NextQueue]_vars

\* the jobs returned before the last call, and the job it returned
ReturnedBefore ==
    {called.returned[k] : k \in 1..(Len(called.returned) - 1)}

LastReturned == called.returned[Len(called.returned)]

\* the predecessors of a job
PredecessorsOf(index) ==
    {problem.constraints[c].before :
        c \in {d \in 1..Len(problem.constraints) : problem.constraints[d].after = index}}

\* the jobs that were allowed at the last call: not returned before, no
\* predecessor left in the queue
AllowedBefore ==
    {i \in 0..(Len(problem.jobs) - 1) :
        i \notin ReturnedBefore /\ PredecessorsOf(i) \subseteq ReturnedBefore}

\* the place of a job in the ordering
PlaceOf(index) == CHOOSE k \in 1..Len(called.ordering) : called.ordering[k] = index

\* the last call was one without a restriction by forced jobs
NoForcedRestriction == called.safe = 0..(Len(problem.jobs) - 1)

\* every job at most once, never before a predecessor
ReturnedInOrder ==
    /\ Len(called.returned) <= Len(problem.jobs)
    /\ \A a, b \in 1..Len(called.returned) :
          called.returned[a] = called.returned[b] => a = b
    /\ \A k \in 1..Len(called.returned) :
          PredecessorsOf(called.returned[k])
              \subseteq {called.returned[b] : b \in 1..(k - 1)}

C38_WitnessSmallest ==
    /\ pc = "ready"
    /\ problem = test_problem_with_constraint
    /\ called.ordering = <<2, 0, 1>>
    /\ called.module = "heuristic_job_queue"
    /\ called.returned = <<0>>
    /\ called.to_skip = 0

\* the fourth call on three jobs panics
C38_WitnessPanic ==
    /\ pc = "panic"
    /\ problem = test_problem_with_three_jobs
    /\ called.ordering = <<2, 0, 1>>
    /\ called.returned = <<1, 0, 2>>

\* a call that a forced job restricts: job 0 of the ordering 0, 1 is not
\* safe and job 1 is returned with to_skip = 0
C38_WitnessForced ==
    /\ pc = "ready"
    /\ Len(problem.jobs) = 2
    /\ called.ordering = <<0, 1>>
    /\ called.returned = <<1>>
    /\ called.to_skip = 0
    /\ called.safe = {1}

\* the step points ascend strictly in start
StrictlyAscending(tl) ==
    \A i \in 1..(Len(tl.intervals) - 1) :
        tl.intervals[i].start < tl.intervals[i + 1].start

\* every find_interruption call that finds a step finds one with a step
\* behind it
InterruptionHasNext(tl) ==
    \A start \in 0..(MaxTime + 1), bound \in 0..(MaxTime + 1) :
        find_interruption(tl, start, bound, TRUE).some =>
            /\ ~find_interruption(tl, start, bound, TRUE).panic
            /\ find_interruption(tl, start, bound, TRUE).index + 1 < Len(tl.intervals)

\* C39: in every state reached by inserts that returned false, with job
\* times that are not negative and max_num_cores >= 1, the step points ascend
\* strictly in start, the first starts at 0 and the last has num_cores 0, so
\* the step refine reads behind an interruption exists.
C39_TimelineWellFormed ==
    (pc = "ready" \/ (pc = "returned" /\ called.name = "insert" /\ result = "false")
        \/ (pc = "returned" /\ called.name = "find_interruption")) =>
        /\ StrictlyAscending(timeline)
        /\ timeline.intervals[1].start = 0
        /\ timeline.intervals[Len(timeline.intervals)].num_cores = 0
        /\ InterruptionHasNext(timeline)
        /\ (called.name = "find_interruption" /\ found.some) =>
              found.index + 1 < Len(timeline.intervals)

\* an interruption found in a timeline of at least four steps that three
\* inserts or more have built, the step behind it being the last
C39_Witness ==
    /\ pc = "returned"
    /\ called.name = "find_interruption"
    /\ found.some
    /\ Len(timeline.intervals) >= 4
    /\ found.index + 2 = Len(timeline.intervals)
    /\ timeline.max_num_cores = 2

====
